---------------------------- MODULE Spec2Model ----------------------------
(***************************************************************************)
(* Model of the offline inspection commands of admintool (src/main.c):     *)
(* the bounded varint codec, the record decoders of the table and log      *)
(* walkers, the value-log resolver and the WAL integrity scan.             *)
(*                                                                         *)
(* Unsigned 64-bit and 32-bit machine words are represented exactly, as    *)
(* the set of the positions of their 1 bits (a subset of 0..63 or 0..31):  *)
(* `|' is union, `&' is intersection, `<<' moves positions up and drops    *)
(* those that leave the word, `+' is a ripple-carry addition that drops    *)
(* the final carry.  Small quantities that the code keeps below the size   *)
(* of a block (offsets, remaining-byte budgets, counters) are integers.    *)
(***************************************************************************)
EXTENDS Integers, Sequences, FiniteSets, TLC

VARIABLES
    cmd,      \* the command being run
    pc,       \* "run" while the command's loop is active, "done" once it returned
    blocks,   \* the container as the block manager yields it: a sequence of payloads
    nextEof,  \* how the cursor reports the end of the block sequence (see CursorNext)
    file,     \* the container's raw bytes, as the positional scanners read them
    vlog,     \* the companion value-log file handed to sstable-dump-full
    limit,    \* the effective output limit
    env,      \* what the environment does to the run (allocation failures)
    st,       \* the command's local variables
    out,      \* the records the command emitted, in order
    log,      \* the decode attempts made on the block processed last
    call      \* the arguments and result of a directly called function

vars == <<cmd, pc, blocks, nextEof, file, vlog, limit, env, st, out, log, call>>

(***************************************************************************)
(* Program constants.                                                      *)
(***************************************************************************)
TDB_KV_FLAG_TOMBSTONE == 1
TDB_KV_FLAG_HAS_TTL == 2
TDB_KV_FLAG_HAS_VLOG == 4
TDB_KV_FLAG_DELTA_SEQ == 8
ADMINTOOL_DEFAULT_DUMP_LIMIT == 1000
VARINT_MAX_BYTES == 10
SIZEOF_INT64 == 8
VALUE_PREVIEW == 64
MAX_BLOCK_SIZE == 104857600
BLOCK_HEADER_SIZE == 8
BLOCK_TRAILER_SIZE == 8
FILE_HEADER_SIZE == 8
MIN_TABLE_BLOCK == 4

(***************************************************************************)
(* Machine words as sets of bit positions.                                 *)
(***************************************************************************)
WordBits == 0..63
SmallBits == 0..29
\* Two words within these bits add up within SmallBits.
HalfBits == 0..28

Pow2(n) == 2 ^ n

\* The 1 bits of a natural number below 2^30.
BitsOfNat(n) == {b \in SmallBits : (n \div Pow2(b)) % 2 = 1}

RECURSIVE NatOfBits(_)
\* The number a set of bit positions below 30 stands for.
NatOfBits(S) ==
    IF S = {} THEN 0
    ELSE LET b == CHOOSE x \in S : TRUE IN Pow2(b) + NatOfBits(S \ {b})

\* A word that fits a model integer.
IsSmall(S) == S \subseteq SmallBits

MaxOf(S) == CHOOSE x \in S : \A y \in S : y <= x

\* a < b on words: the highest bit where they differ is set in b.
WordLt(A, B) ==
    LET D == (A \ B) \cup (B \ A) IN D # {} /\ MaxOf(D) \in B

\* n < K for a model integer n >= 0 and a word K.
NatLtWord(n, K) == ~IsSmall(K) \/ n < NatOfBits(K)

\* x << s on a 64-bit word.
Shl64(S, s) == {b + s : b \in S} \cap WordBits

\* The carry into bit b of a + b: some lower bit generates a carry and every
\* bit between it and b passes it on.
CarryInto(A, B, b) ==
    \E j \in 0..(b - 1) :
        /\ j \in A /\ j \in B
        /\ \A k \in (j + 1)..(b - 1) : k \in A \/ k \in B

\* a + b on uint64_t, bit by bit (the carry out of bit 63 is lost).
AddWords(A, B) ==
    {b \in WordBits : ((b \in A) # (b \in B)) # CarryInto(A, B, b)}

\* a + b on uint64_t.
Add64(A, B) ==
    IF A \subseteq HalfBits /\ B \subseteq HalfBits
    THEN BitsOfNat(NatOfBits(A) + NatOfBits(B))
    ELSE AddWords(A, B)

UINT64_MAX == WordBits

(***************************************************************************)
(* decode_varint_safe.  `data' is the window that starts at the pointer    *)
(* handed in; data[i] of the code is data[i + 1] here.  A read at or past  *)
(* the end of the window is recorded in `inspected' like any other.        *)
(***************************************************************************)
ByteAt(data, i) == IF i < Len(data) THEN data[i + 1] ELSE 0

RECURSIVE varint_loop(_, _, _, _, _)
varint_loop(data, max_bytes, i, shift, value) ==
    IF i < max_bytes /\ i < VARINT_MAX_BYTES
    THEN LET byte == ByteAt(data, i)
             v == value \cup Shl64(BitsOfNat(byte) \cap BitsOfNat(127), shift)
         IN IF BitsOfNat(byte) \cap BitsOfNat(128) = {}
            THEN [ret |-> i + 1, value |-> v, inspected |-> i + 1]
            ELSE varint_loop(data, max_bytes, i + 1, shift + 7, v)
    ELSE [ret |-> -1, value |-> value, inspected |-> i]

RECURSIVE varint_loop_nocap(_, _, _, _, _)
\* The loop without the 10-byte cap.
varint_loop_nocap(data, max_bytes, i, shift, value) ==
    IF i < max_bytes
    THEN LET byte == ByteAt(data, i)
             v == value \cup Shl64(BitsOfNat(byte) \cap BitsOfNat(127), shift)
         IN IF BitsOfNat(byte) \cap BitsOfNat(128) = {}
            THEN [ret |-> i + 1, value |-> v, inspected |-> i + 1]
            ELSE varint_loop_nocap(data, max_bytes, i + 1, shift + 7, v)
    ELSE [ret |-> -1, value |-> value, inspected |-> i]

decode_varint_nocap(data, max_bytes) == varint_loop_nocap(data, max_bytes, 0, 0, {})

RECURSIVE varint_loop_nomask(_, _, _, _, _)
\* The loop that ORs the whole byte in, continuation bit included.
varint_loop_nomask(data, max_bytes, i, shift, value) ==
    IF i < max_bytes /\ i < VARINT_MAX_BYTES
    THEN LET byte == ByteAt(data, i)
             v == value \cup Shl64(BitsOfNat(byte), shift)
         IN IF BitsOfNat(byte) \cap BitsOfNat(128) = {}
            THEN [ret |-> i + 1, value |-> v, inspected |-> i + 1]
            ELSE varint_loop_nomask(data, max_bytes, i + 1, shift + 7, v)
    ELSE [ret |-> -1, value |-> value, inspected |-> i]

decode_varint_nomask(data, max_bytes) == varint_loop_nomask(data, max_bytes, 0, 0, {})

decode_varint_safe(data, max_bytes) == varint_loop(data, max_bytes, 0, 0, {})


(***************************************************************************)
(* The byte window of a block and the decoder's position in it.  `ptr' is  *)
(* the offset of the code's pointer from the start of the payload and      *)
(* `remaining' its budget; `hi' is one past the highest offset read so     *)
(* far, and `steps' lists <<ptr, remaining>> after every decode step.      *)
(***************************************************************************)
HasFlag(flags, f) == (flags \div f) % 2 = 1

Suffix(data, ptr) == SubSeq(data, ptr + 1, Len(data))

\* The n bytes at ptr, read like ByteAt.
Bytes(data, ptr, n) == [i \in 1..n |-> ByteAt(data, ptr + i - 1)]

Window(ptr, remaining) ==
    [ptr |-> ptr, remaining |-> remaining, hi |-> 0, steps |-> << >>]

\* Bytes ptr .. ptr + n - 1 were read; the position is unchanged.
Touch(c, n) == [c EXCEPT !.hi = IF c.ptr + n > @ THEN c.ptr + n ELSE @]

\* ptr += n; remaining -= n, after reading the n bytes.
Consume(c, n) ==
    [ptr |-> c.ptr + n,
     remaining |-> c.remaining - n,
     hi |-> IF c.ptr + n > c.hi THEN c.ptr + n ELSE c.hi,
     steps |-> Append(c.steps, <<c.ptr + n, c.remaining - n>>)]

\* ptr += n; remaining -= n, without reading the bytes skipped.
Skip(c, n) ==
    [c EXCEPT !.ptr = @ + n, !.remaining = @ - n,
              !.steps = Append(@, <<c.ptr + n, c.remaining - n>>)]

\* bytes_read < 0 || (size_t)bytes_read > remaining
VarintFails(v, c) == v.ret < 0 \/ v.ret > c.remaining

NoRecord ==
    [flags |-> 0, key_size |-> {}, value_size |-> {}, seq_value |-> {},
     seq |-> {}, ttl |-> << >>, vlog_offset |-> {}, key |-> << >>,
     has_value |-> FALSE, value |-> << >>]

Failed(step, c, rec) == [ok |-> FALSE, fail |-> step, c |-> c, rec |-> rec]

Decoded(c, rec) == [ok |-> TRUE, fail |-> "none", c |-> c, rec |-> rec]

(***************************************************************************)
(* The record decoder of the table walkers: one iteration of the inner     *)
(* loop of sstable-dump, sstable-stats, sstable-keys and sstable-dump-full *)
(* up to the point where the record is counted.  The four copies share     *)
(* the skeleton below; where their text differs the walker `w' selects the *)
(* copy.  sstable-stats and sstable-keys step over the TTL, and over the   *)
(* value, at the positions where sstable-dump reads them: the positions    *)
(* and the budget are the same in all copies, the bytes recorded as read   *)
(* are those the copy `w' reads.  The header (flags and three varints) is  *)
(* also the header of the two WAL decoders.                                *)
(***************************************************************************)
\* The delta flag ignored.
AbsoluteSeqNoDelta(flags, prev_seq, seq_value) == seq_value

\* sstable-dump, sstable-stats, sstable-dump-full: seq = seq_value, plus prev_seq when DELTA_SEQ.
AbsoluteSeq(flags, prev_seq, seq_value) ==
    IF HasFlag(flags, TDB_KV_FLAG_DELTA_SEQ) THEN Add64(prev_seq, seq_value)
    ELSE seq_value

\* sstable-keys keeps only prev_seq.
AbsoluteSeqKeys(flags, prev_seq, seq_value) ==
    IF HasFlag(flags, TDB_KV_FLAG_DELTA_SEQ) THEN Add64(prev_seq, seq_value)
    ELSE seq_value

\* The WAL commands print seq_value as it is.
SeqStep(w, flags, prev_seq, seq_value) ==
    IF w \in {"wal-dump", "wal-verify"} THEN seq_value
    ELSE IF w = "sstable-keys" THEN AbsoluteSeqKeys(flags, prev_seq, seq_value)
    ELSE AbsoluteSeq(flags, prev_seq, seq_value)

\* if (remaining < sizeof(int64_t)) break;
TtlFits(c) == ~(c.remaining < SIZEOF_INT64)

\* if (remaining < key_size) break;
KeyFits(c, key_size) == ~NatLtWord(c.remaining, key_size)

\* if (remaining < value_size) break;
ValueFits(c, value_size) == ~NatLtWord(c.remaining, value_size)

\* The inline value is read when HAS_VLOG is unset and value_size > 0.
InlineValue(flags, value_size) ==
    ~HasFlag(flags, TDB_KV_FLAG_HAS_VLOG) /\ value_size # {}

\* Bytes pos .. pos + n - 1 were read, wherever the window stands.
ReadAt(c, pos, n) == [c EXCEPT !.hi = IF n > 0 /\ pos + n > @ THEN pos + n ELSE @]

\* printf("%.*s", n, p): the bytes it inspects, up to and including the first NUL.
PrintedSpan(bytes) ==
    IF \E i \in 1..Len(bytes) : bytes[i] = 0
    THEN CHOOSE i \in 1..Len(bytes) : bytes[i] = 0 /\ \A j \in 1..(i - 1) : bytes[j] # 0
    ELSE Len(bytes)

\* The walkers that print the record: the key is read by printf("%.*s") when
\* the counted record is printed, by sstable-keys as well.
KeyPrinters == {"sstable-dump", "sstable-dump-full", "sstable-keys"}

\* The walkers that print an inline value of at most VALUE_PREVIEW bytes.
ValuePrinters == {"sstable-dump", "sstable-dump-full"}

\* The walkers that copy the TTL out of the payload; the others step over it.
TtlReaders == {"sstable-dump", "sstable-dump-full"}

\* The bytes of the counted record that its printing reads: the key up to its
\* first NUL, and the inline value of at most VALUE_PREVIEW bytes likewise.
KeyPrinted(w, c, pos, key) ==
    IF w \in KeyPrinters THEN ReadAt(c, pos, PrintedSpan(key)) ELSE c

ValuePrinted(w, c, pos, value) ==
    IF w \in ValuePrinters /\ Len(value) <= VALUE_PREVIEW
    THEN ReadAt(c, pos, PrintedSpan(value)) ELSE c

\* The last two steps: key = ptr; ptr += key_size; then the inline value check
\* and ptr += value_size.  Neither the key nor the value is read by these
\* steps: sstable-stats reads neither at all, the others read the key when the
\* counted record is printed, and sstable-dump and sstable-dump-full the value
\* when value_size <= 64.
DecodeKeyValue(w, data, c, rec) ==
    IF ~KeyFits(c, rec.key_size) THEN Failed("key", c, rec)
    ELSE LET kn == NatOfBits(rec.key_size)
             ck == Skip(c, kn)
             rk == [rec EXCEPT !.key = Bytes(data, c.ptr, kn)]
         IN IF InlineValue(rec.flags, rec.value_size)
            THEN IF ~ValueFits(ck, rec.value_size) THEN Failed("value", ck, rk)
                 ELSE LET vn == NatOfBits(rec.value_size)
                          rv == [rk EXCEPT !.has_value = TRUE,
                                           !.value = Bytes(data, ck.ptr, vn)]
                      IN Decoded(ValuePrinted(w, KeyPrinted(w, Skip(ck, vn), c.ptr, rk.key),
                                              ck.ptr, rv.value), rv)
            ELSE Decoded(KeyPrinted(w, ck, c.ptr, rk.key), rk)

\* decode_varint_safe(ptr, remaining, &x) at the position of the window.
ReadVarint(data, c) == decode_varint_safe(Suffix(data, c.ptr), c.remaining)

\* if (flags & TDB_KV_FLAG_HAS_VLOG): the value-log offset varint `o', its
\* check, ptr += bytes_read; then the key and the value.
VlogOffsetField(w, data, c, rec, o) ==
    IF VarintFails(o, c) THEN Failed("vlog", Touch(c, o.inspected), rec)
    ELSE DecodeKeyValue(w, data, Consume(c, o.ret), [rec EXCEPT !.vlog_offset = o.value])

\* The value-log offset left in the payload.
DecodeVlogOffsetSkipped(w, data, c, rec) == DecodeKeyValue(w, data, c, rec)

DecodeVlogOffset(w, data, c, rec) ==
    IF HasFlag(rec.flags, TDB_KV_FLAG_HAS_VLOG)
    THEN VlogOffsetField(w, data, c, rec, ReadVarint(data, c))
    ELSE DecodeKeyValue(w, data, c, rec)

\* memcpy(&ttl, ptr, 8); ptr += 8 in sstable-dump and sstable-dump-full;
\* ptr += 8 alone in sstable-stats and sstable-keys.
TtlStep(w, c) == IF w \in TtlReaders THEN Consume(c, SIZEOF_INT64) ELSE Skip(c, SIZEOF_INT64)

\* The optional fields: the 8-byte TTL, then the value-log offset varint.
DecodeOptional(w, data, c, rec) ==
    IF HasFlag(rec.flags, TDB_KV_FLAG_HAS_TTL)
    THEN IF ~TtlFits(c) THEN Failed("ttl", c, rec)
         ELSE DecodeVlogOffset(w, data, TtlStep(w, c),
                               [rec EXCEPT !.ttl = Bytes(data, c.ptr, SIZEOF_INT64)])
    ELSE DecodeVlogOffset(w, data, c, rec)

\* The sequence varint `s', its check, and the absolute sequence number.
SeqField(w, c, rec, prev_seq, s) ==
    IF VarintFails(s, c) THEN Failed("seq", Touch(c, s.inspected), rec)
    ELSE Decoded(Consume(c, s.ret),
                 [rec EXCEPT !.seq_value = s.value,
                             !.seq = SeqStep(w, rec.flags, prev_seq, s.value)])

\* The value-size varint `v', its check, then the sequence varint.
ValueSizeField(w, data, c, rec, prev_seq, v) ==
    IF VarintFails(v, c) THEN Failed("value_size", Touch(c, v.inspected), rec)
    ELSE SeqField(w, Consume(c, v.ret), [rec EXCEPT !.value_size = v.value], prev_seq,
                  ReadVarint(data, Consume(c, v.ret)))

\* The key-size varint `k', its check, then the value-size varint.
KeySizeField(w, data, c, rec, prev_seq, k) ==
    IF VarintFails(k, c) THEN Failed("key_size", Touch(c, k.inspected), rec)
    ELSE ValueSizeField(w, data, Consume(c, k.ret), [rec EXCEPT !.key_size = k.value],
                        prev_seq, ReadVarint(data, Consume(c, k.ret)))

\* uint8_t flags = *ptr++; remaining--; then key_size, value_size, seq_value.
DecodeHeader(w, data, ptr, remaining, prev_seq) ==
    KeySizeField(w, data, Consume(Window(ptr, remaining), 1),
                 [NoRecord EXCEPT !.flags = ByteAt(data, ptr)], prev_seq,
                 ReadVarint(data, Consume(Window(ptr, remaining), 1)))

\* The fields after the header, when the header decoded.
AfterHeader(w, data, h) == IF h.ok THEN DecodeOptional(w, data, h.c, h.rec) ELSE h

DecodeRecord(w, data, ptr, remaining, prev_seq) ==
    AfterHeader(w, data, DecodeHeader(w, data, ptr, remaining, prev_seq))

(***************************************************************************)
(* The inner loop of the table walkers over one payload:                   *)
(*   while (remaining > 0 && total_entries < limit) { decode; count; }     *)
(* `lim' < 0 stands for no limit (sstable-stats).  The result lists the    *)
(* records counted and every decode attempt, the failed last one included. *)
(***************************************************************************)
NoAttempts == [recs |-> << >>, attempts |-> << >>]

\* A count that forgets the record when a later attempt fails.
CountedDropped(d, rest) ==
    [recs |-> IF rest.attempts # << >> /\ ~rest.attempts[Len(rest.attempts)].ok
              THEN rest.recs ELSE <<d.rec>> \o rest.recs,
     attempts |-> <<d>> \o rest.attempts]

Counted(d, rest) ==
    [recs |-> <<d.rec>> \o rest.recs, attempts |-> <<d>> \o rest.attempts]

RECURSIVE InnerLoop(_, _, _, _, _, _, _)
RECURSIVE InnerBody(_, _, _, _, _)
\* One iteration on the decode attempt `d': a break, or the count and the rest of the loop.
InnerBody(w, data, d, total, lim) ==
    IF d.ok
    THEN Counted(d, InnerLoop(w, data, d.c.ptr, d.c.remaining, d.rec.seq, total + 1, lim))
    ELSE [recs |-> << >>, attempts |-> <<d>>]

InnerLoop(w, data, ptr, remaining, prev_seq, total, lim) ==
    IF remaining > 0 /\ (lim < 0 \/ total < lim)
    THEN InnerBody(w, data, DecodeRecord(w, data, ptr, remaining, prev_seq), total, lim)
    ELSE NoAttempts

(***************************************************************************)
(* The decoder of wal-dump: one entry per block.  A TTL that does not fit  *)
(* is passed over, the value-log offset is not decoded, and an inline      *)
(* value that does not fit leaves the value pointer NULL.                  *)
(***************************************************************************)
WalDumpKeyValue(data, c, rec) ==
    IF ~KeyFits(c, rec.key_size) THEN Failed("key", c, rec)
    ELSE LET kn == NatOfBits(rec.key_size)
             ck == Skip(c, kn)
             rk == [rec EXCEPT !.key = Bytes(data, c.ptr, kn)]
             kr == ReadAt(ck, c.ptr, PrintedSpan(rk.key))
         IN IF rec.value_size # {} /\ ValueFits(ck, rec.value_size)
            THEN LET vn == NatOfBits(rec.value_size)
                     rv == [rk EXCEPT !.has_value = TRUE,
                                      !.value = Bytes(data, ck.ptr, vn)]
                 IN Decoded(IF vn <= VALUE_PREVIEW
                            THEN ReadAt(kr, ck.ptr, PrintedSpan(rv.value)) ELSE kr, rv)
            ELSE Decoded(kr, rk)

WalDumpTtl(data, c, rec) ==
    IF HasFlag(rec.flags, TDB_KV_FLAG_HAS_TTL) /\ c.remaining >= SIZEOF_INT64
    THEN WalDumpKeyValue(data, Consume(c, SIZEOF_INT64),
                         [rec EXCEPT !.ttl = Bytes(data, c.ptr, SIZEOF_INT64)])
    ELSE WalDumpKeyValue(data, c, rec)

WalDumpAfterHeader(data, h) == IF h.ok THEN WalDumpTtl(data, h.c, h.rec) ELSE h

WalDumpDecode(data, ptr, remaining) ==
    WalDumpAfterHeader(data, DecodeHeader("wal-dump", data, ptr, remaining, {}))

(***************************************************************************)
(* The decoder of wal-verify: entry_valid.  Nothing past the sequence      *)
(* varint is read; the TTL and the key are stepped over, the value is only *)
(* compared with the budget, the value-log offset is not decoded.          *)
(***************************************************************************)
WalVerifyKeyValue(c, rec) ==
    IF ~KeyFits(c, rec.key_size) THEN Failed("key", c, rec)
    ELSE LET ck == Skip(c, NatOfBits(rec.key_size))
         IN IF rec.value_size # {} /\ ~ValueFits(ck, rec.value_size)
            THEN Failed("value", ck, rec)
            ELSE Decoded(ck, rec)

WalVerifyTtl(c, rec) ==
    IF HasFlag(rec.flags, TDB_KV_FLAG_HAS_TTL)
    THEN IF ~TtlFits(c) THEN Failed("ttl", c, rec)
         ELSE WalVerifyKeyValue(Skip(c, SIZEOF_INT64), rec)
    ELSE WalVerifyKeyValue(c, rec)

WalVerifyAfterHeader(h) == IF h.ok THEN WalVerifyTtl(h.c, h.rec) ELSE h

WalVerifyDecode(data, ptr, remaining) ==
    WalVerifyAfterHeader(DecodeHeader("wal-verify", data, ptr, remaining, {}))

(***************************************************************************)
(* The block manager's cursor, as the walkers use it.  The cursor stands   *)
(* at block `cur' (1-based).  At the last block the library either reports *)
(* the end from block_manager_cursor_next (nextEof) or lets the cursor     *)
(* advance to a position where block_manager_cursor_read yields no block.  *)
(***************************************************************************)
CursorHasBlock(cur) == cur <= Len(blocks)

CursorNextOk(cur) == cur < Len(blocks) \/ ~nextEof

CursorGotoFirstOk == blocks # << >> \/ ~nextEof

RECURSIVE BlockPos(_, _)
\* cursor->current_pos at block k: the file header, then header, payload and trailer per block.
BlockPos(bs, k) ==
    IF k <= 1 THEN FILE_HEADER_SIZE
    ELSE BlockPos(bs, k - 1) + BLOCK_HEADER_SIZE + Len(bs[k - 1]) + BLOCK_TRAILER_SIZE

(***************************************************************************)
(* Positional reads, little-endian words and the block digest.             *)
(***************************************************************************)
Min(a, b) == IF a < b THEN a ELSE b

RECURSIVE Concat(_)
\* The sequences of ss one after the other.
Concat(ss) == IF ss = << >> THEN << >> ELSE Head(ss) \o Concat(Tail(ss))

\* pread(fd, buf, n, pos): the bytes read; their number is nread.
Pread(bytes, n, pos) ==
    IF pos >= Len(bytes) THEN << >> ELSE SubSeq(bytes, pos + 1, Min(pos + n, Len(bytes)))

\* decode_uint32_le on four bytes, as a word.
decode_uint32_le(b) ==
    BitsOfNat(b[1]) \cup Shl64(BitsOfNat(b[2]), 8)
        \cup Shl64(BitsOfNat(b[3]), 16) \cup Shl64(BitsOfNat(b[4]), 24)

RECURSIVE DigestSum(_, _, _)
\* The sum of the position-weighted bytes lo..hi, by halves.
DigestSum(data, lo, hi) ==
    IF lo > hi THEN 0
    ELSE IF lo = hi THEN ((131 * lo + 1) * (data[lo] + 1)) % 65521
    ELSE (DigestSum(data, lo, (lo + hi) \div 2)
            + DigestSum(data, ((lo + hi) \div 2) + 1, hi)) % 65521

\* A digest of the bytes with seed h, standing for XXH32: a fixed function
\* of the bytes and the seed.
Digest(data, h) == (h + Len(data) + DigestSum(data, 1, Len(data))) % 65521

\* compute_block_checksum: XXH32 with seed 0, a fixed function of the payload bytes.
compute_block_checksum(data) == BitsOfNat(Digest(data, 0))

\* No declared length refused.
BadBlockSizeNever(block_size) == FALSE

\* block_size == 0 || block_size > 100 * 1024 * 1024
BadBlockSize(block_size) ==
    block_size = {} \/ WordLt(BitsOfNat(MAX_BLOCK_SIZE), block_size)

(***************************************************************************)
(* read_vlog_value.  `v' is the companion file ([opens, bytes]), `offset'  *)
(* the value-log offset word of the record, `oom' whether malloc fails.    *)
(* The result carries the return value and, on success only, the buffer    *)
(* stored through value_out.                                               *)
(***************************************************************************)
VlogFailure(code, evs) == [ret |-> code, handed |-> FALSE, value_out |-> << >>, ev |-> evs]

read_vlog_value(v, offset, oom) ==
    IF ~v.opens THEN VlogFailure(-1, << >>)
    ELSE
    LET header == IF IsSmall(offset) THEN Pread(v.bytes, 8, NatOfBits(offset)) ELSE << >>
    IN IF Len(header) # 8 THEN VlogFailure(-1, <<"open", "close">>)
       ELSE
       LET block_size == decode_uint32_le(SubSeq(header, 1, 4))
           stored_checksum == decode_uint32_le(SubSeq(header, 5, 8))
       IN IF BadBlockSize(block_size) THEN VlogFailure(-1, <<"open", "close">>)
          ELSE IF oom THEN VlogFailure(-1, <<"open", "close">>)
          ELSE
          LET n == NatOfBits(block_size)
              data == Pread(v.bytes, n, NatOfBits(offset) + 8)
          IN IF Len(data) # n
             THEN VlogFailure(-1, <<"open", "malloc", "free", "close">>)
             ELSE IF compute_block_checksum(data) # stored_checksum
             THEN VlogFailure(-2, <<"open", "malloc", "free", "close">>)
             ELSE [ret |-> n, handed |-> TRUE, value_out |-> data,
                   ev |-> <<"open", "malloc", "close">>]

(***************************************************************************)
(* The cursor-based table walkers.  One action is one iteration of the     *)
(* outer loop: the loop test, the block read, the inner loop over the      *)
(* payload, the release and the cursor advance; when the loop ends the     *)
(* action also prints the summary and returns.                             *)
(***************************************************************************)
BlockLog(data, r) == [L |-> Len(data), attempts |-> r.attempts]

\* A block read whose block is never released.
ReadWithoutRelease == <<"read">>

\* block_manager_cursor_read gave a block, released before the cursor moves on.
ReadRelease == <<"read", "release">>

\* block_manager_cursor_free and block_manager_close before the return.
CursorClose == <<"cursor_free", "bm_close">>

\* The loop of a cursor walker is left at its top: by its test or by a read that
\* yields no block.
LoopExit(s, limited) ==
    [s EXCEPT !.exit = IF limited THEN "limit" ELSE "noblock", !.ev = @ \o CursorClose]

\* The loop is left because block_manager_cursor_next failed.
NextExit(s) == [s EXCEPT !.exit = "end", !.ev = @ \o CursorClose]

NoLog == [L |-> 0, attempts |-> << >>]

\* What sstable-dump prints for a counted record.
DumpEntry(rec, n, blk) ==
    [n |-> n, blk |-> blk, flags |-> rec.flags, seq |-> rec.seq, key |-> rec.key,
     has_value |-> rec.has_value, value |-> rec.value, value_size |-> rec.value_size,
     ttl |-> rec.ttl, vlog_offset |-> rec.vlog_offset]

\* The body of the outer loop on the block `data', `r' being what its inner loop did.
SstableDumpBlock(data, r) ==
    LET n == Len(r.recs)
        s1 == [st EXCEPT !.total_entries = @ + n, !.reads = @ + 1,
                         !.ev = @ \o ReadRelease]
    IN /\ out' = out \o [i \in 1..n |->
                           DumpEntry(r.recs[i], st.total_entries + i, st.block_num)]
       /\ log' = BlockLog(data, r)
       /\ IF CursorNextOk(st.cur)
          THEN /\ pc' = "run"
               /\ st' = [s1 EXCEPT !.cur = @ + 1, !.block_num = @ + 1]
          ELSE /\ pc' = "done"
               /\ st' = [NextExit(s1) EXCEPT !.ret = 0,
                                             !.summary_blocks = st.block_num + 1]

\* if (block->size < 4) the block is released and the cursor advanced.
TableBlock(w, data, total, lim) ==
    IF Len(data) < MIN_TABLE_BLOCK THEN NoAttempts
    ELSE InnerLoop(w, data, 0, Len(data), {}, total, lim)

SstableDumpStep ==
    /\ cmd = "sstable-dump" /\ pc = "run"
    /\ UNCHANGED <<cmd, blocks, nextEof, file, vlog, limit, env, call>>
    /\ IF ~(st.total_entries < limit) \/ ~CursorHasBlock(st.cur)
       THEN /\ pc' = "done"
            /\ st' = [LoopExit(st, ~(st.total_entries < limit)) EXCEPT
                        !.ret = 0, !.summary_blocks = st.block_num + 1]
            /\ UNCHANGED <<out, log>>
       ELSE SstableDumpBlock(blocks[st.cur],
                             TableBlock("sstable-dump", blocks[st.cur],
                                        st.total_entries, limit))

\* What sstable-keys prints for a counted record.
KeysEntry(rec, n) ==
    [n |-> n, key |-> rec.key, del |-> HasFlag(rec.flags, TDB_KV_FLAG_TOMBSTONE)]

\* uint8_t *first_key = NULL; uint8_t *last_key = NULL;
NullKey == [set |-> FALSE, bytes |-> << >>]

\* malloc(key_size) of sstable-keys: call number s.mallocs of the command
\* returns NULL when the environment fails that call.
KeyMallocOk(s) == env.oomAt # s.mallocs

\* if (first_key == NULL) { first_key = malloc(key_size); if (first_key) {...} }
FirstKeyBuffer(s, key) ==
    IF s.first_key.set THEN s
    ELSE IF KeyMallocOk(s)
         THEN [s EXCEPT !.mallocs = @ + 1, !.ev = Append(@, "malloc"),
                        !.first_key = [set |-> TRUE, bytes |-> key]]
         ELSE [s EXCEPT !.mallocs = @ + 1]

\* free(last_key); last_key = malloc(key_size); if (last_key) {...}
LastKeyBuffer(s, key) ==
    LET ev == IF s.last_key.set THEN Append(s.ev, "free") ELSE s.ev
    IN IF KeyMallocOk(s)
       THEN [s EXCEPT !.mallocs = @ + 1, !.ev = Append(ev, "malloc"),
                      !.last_key = [set |-> TRUE, bytes |-> key]]
       ELSE [s EXCEPT !.mallocs = @ + 1, !.ev = ev, !.last_key = NullKey]

RECURSIVE KeyBuffers(_, _, _)
\* The buffers of the key range over the counted records from `i' on: first_key
\* is tried until an allocation succeeds, last_key is freed and allocated again
\* for every counted key.
KeyBuffers(s, recs, i) ==
    IF i > Len(recs) THEN s
    ELSE KeyBuffers(LastKeyBuffer(FirstKeyBuffer(s, recs[i].key), recs[i].key), recs, i + 1)

\* if (first_key && last_key) printf("Key Range: ..."); free(first_key);
\* free(last_key); and the handles, before the return.
KeysReturn(s) ==
    [s EXCEPT !.ret = 0,
              !.key_range = s.first_key.set /\ s.last_key.set,
              !.ev = @ \o (IF s.first_key.set THEN <<"free">> ELSE << >>)
                       \o (IF s.last_key.set THEN <<"free">> ELSE << >>)]

\* The position of the key of the counted record of attempt `d': sstable-keys
\* has stepped over the key and the inline value since.
KeyStart(d) ==
    d.c.ptr - NatOfBits(d.rec.key_size)
            - (IF d.rec.has_value THEN NatOfBits(d.rec.value_size) ELSE 0)

\* memcpy(first_key, key, key_size) or memcpy(last_key, key, key_size) is
\* reached for the record counted in state `s': one of its allocations succeeds.
KeyCopied(s) ==
    (~s.first_key.set /\ KeyMallocOk(s)) \/ KeyMallocOk(FirstKeyBuffer(s, << >>))

\* The attempt `d' after the copies of its key: the whole key was read.
KeyRead(s, d) ==
    IF KeyCopied(s)
    THEN [d EXCEPT !.c = ReadAt(@, KeyStart(d), NatOfBits(d.rec.key_size))]
    ELSE d

RECURSIVE KeysAttempts(_, _, _, _)
\* The decode attempts of the block with the bytes the key copies read, for the
\* counted records from `i' on.
KeysAttempts(s, recs, attempts, i) ==
    IF i > Len(recs) THEN attempts
    ELSE KeysAttempts(LastKeyBuffer(FirstKeyBuffer(s, recs[i].key), recs[i].key), recs,
                      [attempts EXCEPT ![i] = KeyRead(s, attempts[i])], i + 1)

\* The block read, its counted records, the release.
KeysAfterBlock(s, n) ==
    [s EXCEPT !.total_keys = @ + n, !.reads = @ + 1, !.ev = Append(@, "release")]

SstableKeysBlock(data, r) ==
    /\ out' = out \o [i \in 1..Len(r.recs) |-> KeysEntry(r.recs[i], st.total_keys + i)]
    /\ log' = [L |-> Len(data), attempts |-> KeysAttempts(st, r.recs, r.attempts, 1)]
    /\ IF CursorNextOk(st.cur)
       THEN /\ pc' = "run"
            /\ st' = [KeysAfterBlock(KeyBuffers([st EXCEPT !.ev = Append(@, "read")],
                                                r.recs, 1), Len(r.recs))
                        EXCEPT !.cur = @ + 1]
       ELSE /\ pc' = "done"
            /\ st' = NextExit(KeysReturn(
                          KeysAfterBlock(KeyBuffers([st EXCEPT !.ev = Append(@, "read")],
                                                    r.recs, 1), Len(r.recs))))

SstableKeysStep ==
    /\ cmd = "sstable-keys" /\ pc = "run"
    /\ UNCHANGED <<cmd, blocks, nextEof, file, vlog, limit, env, call>>
    /\ IF ~(st.total_keys < limit) \/ ~CursorHasBlock(st.cur)
       THEN /\ pc' = "done"
            /\ st' = LoopExit(KeysReturn(st), ~(st.total_keys < limit))
            /\ UNCHANGED <<out, log>>
       ELSE SstableKeysBlock(blocks[st.cur],
                             TableBlock("sstable-keys", blocks[st.cur],
                                        st.total_keys, limit))

WordMin(A, B) == IF WordLt(A, B) THEN A ELSE B

WordMax(A, B) == IF WordLt(B, A) THEN A ELSE B

Inc(c, cond) == IF cond THEN c + 1 ELSE c

\* The counters sstable-stats updates before the record is complete:
\* ttl_count++ once the TTL fits, vlog_count++ once the offset varint decodes.
StatsAttempt(s, d) ==
    [s EXCEPT
       !.ttl_count = Inc(@, HasFlag(d.rec.flags, TDB_KV_FLAG_HAS_TTL)
                            /\ d.fail \notin {"key_size", "value_size", "seq", "ttl"}),
       !.vlog_count = Inc(@, HasFlag(d.rec.flags, TDB_KV_FLAG_HAS_VLOG)
                             /\ d.fail \notin {"key_size", "value_size", "seq", "ttl", "vlog"})]

\* The counters sstable-stats updates once the record is complete.
StatsCount(s, rec) ==
    [s EXCEPT
       !.total_entries = @ + 1,
       !.tombstone_count = Inc(@, HasFlag(rec.flags, TDB_KV_FLAG_TOMBSTONE)),
       !.min_seq = WordMin(rec.seq, @),
       !.max_seq = WordMax(rec.seq, @),
       !.total_key_size = Add64(@, rec.key_size),
       !.total_value_size = Add64(@, rec.value_size),
       !.min_key_size = WordMin(rec.key_size, @),
       !.max_key_size = WordMax(rec.key_size, @),
       !.min_value_size = WordMin(rec.value_size, @),
       !.max_value_size = WordMax(rec.value_size, @)]

RECURSIVE StatsFold(_, _, _)
StatsFold(s, attempts, i) ==
    IF i > Len(attempts) THEN s
    ELSE StatsFold(IF attempts[i].ok
                   THEN StatsCount(StatsAttempt(s, attempts[i]), attempts[i].rec)
                   ELSE StatsAttempt(s, attempts[i]),
                   attempts, i + 1)

\* The report: a minimum still at UINT64_MAX is printed as 0.
Reported(m) == IF m = UINT64_MAX THEN {} ELSE m

SstableStatsBlock(data, r) ==
    /\ log' = BlockLog(data, r)
    /\ IF CursorNextOk(st.cur)
       THEN /\ pc' = "run"
            /\ st' = [StatsFold(st, r.attempts, 1) EXCEPT
                        !.block_count = @ + 1, !.reads = @ + 1, !.cur = @ + 1,
                        !.ev = @ \o ReadRelease]
       ELSE /\ pc' = "done"
            /\ st' = NextExit([StatsFold(st, r.attempts, 1) EXCEPT
                                 !.block_count = @ + 1, !.reads = @ + 1, !.ret = 0,
                                 !.ev = @ \o ReadRelease])

SstableStatsStep ==
    /\ cmd = "sstable-stats" /\ pc = "run"
    /\ UNCHANGED <<cmd, blocks, nextEof, file, vlog, limit, env, call, out>>
    /\ IF ~CursorHasBlock(st.cur)
       THEN /\ pc' = "done"
            /\ st' = LoopExit([st EXCEPT !.ret = 0], FALSE)
            /\ UNCHANGED log
       ELSE SstableStatsBlock(blocks[st.cur],
                              TableBlock("sstable-stats", blocks[st.cur], 0, -1))

(***************************************************************************)
(* wal-dump and wal-verify: one entry per block.                           *)
(***************************************************************************)
WalEntry(rec, n) ==
    [n |-> n, flags |-> rec.flags, seq |-> rec.seq, key |-> rec.key,
     has_value |-> rec.has_value, value |-> rec.value, value_size |-> rec.value_size,
     ttl |-> rec.ttl]

\* The body of the loop on the block `data'; `d' is the decode of its entry.
WalDumpBlock(data, d) ==
    LET skip == Len(data) < 1
        emit == ~skip /\ d.ok
        s1 == [st EXCEPT !.entry_num = Inc(@, emit), !.reads = @ + 1,
                         !.ev = @ \o ReadRelease]
    IN /\ out' = IF emit THEN Append(out, WalEntry(d.rec, st.entry_num + 1)) ELSE out
       /\ log' = [L |-> Len(data), attempts |-> IF skip THEN << >> ELSE <<d>>]
       /\ IF CursorNextOk(st.cur)
          THEN /\ pc' = "run"
               /\ st' = [s1 EXCEPT !.cur = @ + 1]
          ELSE /\ pc' = "done"
               /\ st' = NextExit([s1 EXCEPT !.ret = 0])

WalDumpStep ==
    /\ cmd = "wal-dump" /\ pc = "run"
    /\ UNCHANGED <<cmd, blocks, nextEof, file, vlog, limit, env, call>>
    /\ IF ~(st.entry_num < limit) \/ ~CursorHasBlock(st.cur)
       THEN /\ pc' = "done"
            /\ st' = LoopExit([st EXCEPT !.ret = 0], ~(st.entry_num < limit))
            /\ UNCHANGED <<out, log>>
       ELSE WalDumpBlock(blocks[st.cur],
                         WalDumpDecode(blocks[st.cur], 0, Len(blocks[st.cur])))

\* The report and the return value of wal-verify.
WalVerifyReturn(s) ==
    [s EXCEPT !.status = IF s.corrupted_entries = 0 THEN "OK" ELSE "CORRUPTED",
              !.ret = IF s.corrupted_entries > 0 THEN -1 ELSE 0]

\* The body of the loop on the block `data' at `current_pos'; `d' is entry_valid's decode.
WalVerifyBlock(data, current_pos, d) ==
    LET skip == Len(data) < 1
        entry_valid == d.ok
        s0 == [st EXCEPT !.reads = @ + 1, !.ev = @ \o ReadRelease]
        s1 == IF skip THEN s0
              ELSE IF entry_valid
              THEN [s0 EXCEPT !.min_seq = WordMin(d.rec.seq, @),
                              !.max_seq = WordMax(d.rec.seq, @),
                              !.valid_entries = @ + 1,
                              !.last_valid_pos = current_pos]
              ELSE [s0 EXCEPT !.corrupted_entries = @ + 1]
    IN /\ log' = [L |-> Len(data), attempts |-> IF skip THEN << >> ELSE <<d>>]
       /\ IF CursorNextOk(st.cur)
          THEN /\ pc' = "run"
               /\ st' = [s1 EXCEPT !.cur = @ + 1]
          ELSE /\ pc' = "done"
               /\ st' = NextExit(WalVerifyReturn(s1))

WalVerifyStep ==
    /\ cmd = "wal-verify" /\ pc = "run"
    /\ UNCHANGED <<cmd, blocks, nextEof, file, vlog, limit, env, call, out>>
    /\ IF ~CursorHasBlock(st.cur)
       THEN /\ pc' = "done"
            /\ st' = LoopExit(WalVerifyReturn([st EXCEPT !.corrupted_entries = @ + 1]),
                              FALSE)
            /\ UNCHANGED log
       ELSE WalVerifyBlock(blocks[st.cur], BlockPos(blocks, st.cur),
                           WalVerifyDecode(blocks[st.cur], 0, Len(blocks[st.cur])))

(***************************************************************************)
(* sstable-dump-full: the positional scan, the inline checksum and the     *)
(* value-log resolution of every counted record.                           *)
(***************************************************************************)
\* vlog_status and the buffer for one counted record.
ResolveVlog(rec) ==
    IF HasFlag(rec.flags, TDB_KV_FLAG_HAS_VLOG) /\ vlog.path /\ rec.value_size # {}
    THEN read_vlog_value(vlog, rec.vlog_offset, env.vlogOom)
    ELSE VlogFailure(0, << >>)

\* Every failure printed as a read error.
VlogMarkerCollapsed(flags, vlog_status) ==
    IF HasFlag(flags, TDB_KV_FLAG_HAS_VLOG) /\ vlog_status < 0 THEN "READ_ERR" ELSE "none"

\* The marker printed inside [VLOG:...].
VlogMarker(flags, vlog_status) ==
    IF ~HasFlag(flags, TDB_KV_FLAG_HAS_VLOG) THEN "none"
    ELSE IF vlog_status = -2 THEN "CHECKSUM_ERR"
    ELSE IF vlog_status < 0 /\ vlog.path THEN "READ_ERR"
    ELSE IF ~vlog.path THEN "NO_VLOG_FILE"
    ELSE "none"

\* What is printed after key=...: the bytes, a byte count, the
\* not-retrieved note, or nothing.  `value' is the inline value or the
\* resolved buffer; `printed' bytes of it are handed to printf.
ValueText(rec, res) ==
    LET value_set == rec.has_value \/ res.ret > 0
        value == IF rec.has_value THEN rec.value ELSE res.value_out
    IN IF value_set /\ rec.value_size # {}
       THEN IF ~WordLt(BitsOfNat(VALUE_PREVIEW), rec.value_size)
            THEN [kind |-> "bytes", printed |-> NatOfBits(rec.value_size),
                  avail |-> Len(value),
                  bytes |-> SubSeq(value, 1, Min(NatOfBits(rec.value_size), Len(value)))]
            ELSE [kind |-> "count", printed |-> 0, avail |-> Len(value), bytes |-> << >>]
       ELSE IF HasFlag(rec.flags, TDB_KV_FLAG_HAS_VLOG) /\ ~res.handed
            THEN [kind |-> "not retrieved", printed |-> 0, avail |-> 0, bytes |-> << >>]
            ELSE [kind |-> "nothing", printed |-> 0, avail |-> 0, bytes |-> << >>]

DumpFullEntry(rec, n, blk, checksum_ok) ==
    LET res == ResolveVlog(rec)
    IN [n |-> n, blk |-> blk, checksum_err |-> ~checksum_ok, flags |-> rec.flags,
        seq |-> rec.seq, key |-> rec.key, has_value |-> rec.has_value,
        value |-> rec.value, value_size |-> rec.value_size, ttl |-> rec.ttl,
        vlog_offset |-> rec.vlog_offset, vlog_status |-> res.ret,
        marker |-> VlogMarker(rec.flags, res.ret), text |-> ValueText(rec, res)]

DumpFullReturn(s) ==
    [s EXCEPT !.ret = IF s.checksum_errors > 0 THEN -1 ELSE 0, !.ev = @ \o <<"close">>]

\* What resolving the value of one counted record acquires and gives back: the
\* descriptor and the buffer inside read_vlog_value, and free(vlog_value).
EntryBuffers(rec) ==
    ResolveVlog(rec).ev \o (IF ResolveVlog(rec).handed THEN <<"free">> ELSE << >>)

\* One pread(fd, buf, n, pos) that returned `got' bytes.
PreadCall(pos, n, got) == [pos |-> pos, n |-> n, got |-> got]

\* An advance that takes the next header to follow the payload directly.
NextBlockPosNoTrailer(pos, block_size) == pos + BLOCK_HEADER_SIZE + block_size

\* An advance that stays on the block it has just read.
NextBlockPosStuck(pos, block_size) == pos

\* pos += 8 + block_size + 8
NextBlockPos(pos, block_size) == pos + BLOCK_HEADER_SIZE + block_size + BLOCK_TRAILER_SIZE

\* A scan that leaves its loop at a mismatching block.
ScanAfterHalting(checksum_ok) == IF checksum_ok THEN "run" ELSE "done"

\* Where the scan goes after a block whose checksum was compared: neither
\* branch of the comparison leaves the loop.
ScanAfter(checksum_ok) == "run"

\* A comparison that never finds a difference.
ChecksumMatchesAlways(data, stored_checksum) == TRUE

\* computed_checksum == stored_checksum
ChecksumMatches(data, stored_checksum) == compute_block_checksum(data) = stored_checksum

\* The block `block_data' was read whole: the checksum, the inner loop `r', the
\* advance.  `io' are the preads of this iteration.
DumpFullBlock(block_data, checksum_ok, r, io) ==
    /\ pc' = ScanAfter(checksum_ok)
    /\ out' = out \o [i \in 1..Len(r.recs) |->
                        DumpFullEntry(r.recs[i], st.total_entries + i,
                                      st.block_num, checksum_ok)]
    /\ log' = BlockLog(block_data, r)
    /\ st' = [st EXCEPT
                !.checksum_errors = Inc(@, ~checksum_ok),
                !.total_entries = @ + Len(r.recs),
                !.pos = NextBlockPos(@, Len(block_data)),
                !.block_num = @ + 1,
                !.reads = @ + 1,
                !.preads = @ \o io,
                !.ev = @ \o <<"malloc">>
                         \o Concat([i \in 1..Len(r.recs) |-> EntryBuffers(r.recs[i])])
                         \o <<"free">>]

\* The loop is left, by its test or by a break; `why' names the exit.
DumpFullStop(why, io) ==
    /\ pc' = "done"
    /\ st' = DumpFullReturn([st EXCEPT !.preads = @ \o io, !.exit = why,
                                       !.ev = @ \o IF why = "payload"
                                                   THEN <<"malloc", "free">> ELSE << >>])
    /\ UNCHANGED <<out, log>>

\* malloc(block_size) and the pread of the payload of `n0' bytes.
DumpFullPayload(n0, stored_checksum, block_data, io) ==
    IF env.oomAt = st.block_num THEN DumpFullStop("malloc", io)
    ELSE IF Len(block_data) # n0
    THEN DumpFullStop("payload", Append(io, PreadCall(st.pos + 8, n0, Len(block_data))))
    ELSE DumpFullBlock(block_data,
                       ChecksumMatches(block_data, stored_checksum),
                       InnerLoop("sstable-dump-full", block_data, 0, n0, {},
                                 st.total_entries, limit),
                       Append(io, PreadCall(st.pos + 8, n0, n0)))

DumpFullSize(block_size, stored_checksum, io) ==
    IF BadBlockSize(block_size) THEN DumpFullStop("size", io)
    ELSE DumpFullPayload(NatOfBits(block_size), stored_checksum,
                         Pread(file, NatOfBits(block_size), st.pos + 8), io)

\* The loop test and the 8-byte block header read at `pos'.
DumpFullHeader(header) ==
    IF ~(st.total_entries < limit /\ st.pos < st.st_size)
    THEN DumpFullStop("end", << >>)
    ELSE IF Len(header) # 8
    THEN DumpFullStop("header", <<PreadCall(st.pos, 8, Len(header))>>)
    ELSE DumpFullSize(decode_uint32_le(SubSeq(header, 1, 4)),
                      decode_uint32_le(SubSeq(header, 5, 8)),
                      <<PreadCall(st.pos, 8, 8)>>)

DumpFullStep ==
    /\ cmd = "sstable-dump-full" /\ pc = "run"
    /\ UNCHANGED <<cmd, blocks, nextEof, file, vlog, limit, env, call>>
    /\ DumpFullHeader(Pread(file, 8, st.pos))

(***************************************************************************)
(* sstable-checksum (also reached as wal-checksum): the positional scan    *)
(* that recomputes the digest of every block.                              *)
(***************************************************************************)
\* One reported block: the line printed for it.
ChecksumLine(kind, size, stored, computed) ==
    [blk |-> st.block_num, pos |-> st.pos, kind |-> kind, size |-> size,
     stored |-> stored, computed |-> computed]

\* A report whose return value ignores the count of invalid blocks.
ChecksumReturnsSuccess(s) ==
    [s EXCEPT !.status = IF s.invalid_blocks = 0 THEN "OK" ELSE "CORRUPTED",
              !.ret = 0,
              !.ev = @ \o <<"close">>]

\* The results printed after the loop and the return value.
ChecksumReturn(s) ==
    [s EXCEPT !.status = IF s.invalid_blocks = 0 THEN "OK" ELSE "CORRUPTED",
              !.ret = IF s.invalid_blocks > 0 THEN -1 ELSE 0,
              !.ev = @ \o <<"close">>]

\* The loop is left; `invalid' tells whether the block at pos was counted invalid.
ChecksumStop(why, invalid, lines, io) ==
    /\ pc' = "done"
    /\ out' = out \o lines
    /\ st' = ChecksumReturn([st EXCEPT !.invalid_blocks = Inc(@, invalid),
                                       !.preads = @ \o io, !.exit = why,
                                       !.ev = @ \o IF why = "payload"
                                                   THEN <<"malloc", "free">> ELSE << >>])

\* The block `data' was read whole: the comparison, the counters, the advance.
ChecksumBlock(data, stored_checksum, matches, io) ==
    /\ pc' = ScanAfter(matches)
    /\ out' = IF matches THEN out
              ELSE Append(out, ChecksumLine("CHECKSUM MISMATCH", BitsOfNat(Len(data)),
                                            stored_checksum, compute_block_checksum(data)))
    /\ st' = [st EXCEPT !.valid_blocks = Inc(@, matches),
                        !.invalid_blocks = Inc(@, ~matches),
                        !.pos = NextBlockPos(@, Len(data)),
                        !.block_num = @ + 1,
                        !.preads = @ \o io,
                        !.ev = @ \o <<"malloc", "free">>]

\* malloc(block_size) and the pread of the payload of `n0' bytes.
ChecksumPayload(n0, stored_checksum, data, io) ==
    IF env.oomAt = st.block_num
    THEN ChecksumStop("malloc", FALSE, <<ChecksumLine("OUT OF MEMORY", {}, {}, {})>>, io)
    ELSE IF Len(data) # n0
    THEN ChecksumStop("payload", TRUE,
                      <<ChecksumLine("READ ERROR", BitsOfNat(n0), {}, {})>>,
                      Append(io, PreadCall(st.pos + 8, n0, Len(data))))
    ELSE ChecksumBlock(data, stored_checksum, ChecksumMatches(data, stored_checksum),
                       Append(io, PreadCall(st.pos + 8, n0, n0)))

ChecksumSize(block_size, stored_checksum, io) ==
    IF BadBlockSize(block_size)
    THEN ChecksumStop("size", TRUE, <<ChecksumLine("INVALID SIZE", block_size, {}, {})>>, io)
    ELSE ChecksumPayload(NatOfBits(block_size), stored_checksum,
                         Pread(file, NatOfBits(block_size), st.pos + 8), io)

\* The loop test and the 8-byte block header read at `pos'.
ChecksumHeader(header) ==
    IF ~(st.pos < st.st_size)
    THEN ChecksumStop("end", FALSE, << >>, << >>)
    ELSE IF Len(header) # 8
    THEN ChecksumStop("header", FALSE, << >>, <<PreadCall(st.pos, 8, Len(header))>>)
    ELSE ChecksumSize(decode_uint32_le(SubSeq(header, 1, 4)),
                      decode_uint32_le(SubSeq(header, 5, 8)),
                      <<PreadCall(st.pos, 8, 8)>>)

SstableChecksumStep ==
    /\ cmd = "sstable-checksum" /\ pc = "run"
    /\ UNCHANGED <<cmd, blocks, nextEof, file, vlog, limit, env, call, log>>
    /\ ChecksumHeader(Pread(file, 8, st.pos))

(***************************************************************************)
(* The start of a command: the container is opened and, for the cursor     *)
(* walkers, the cursor is placed on the first block.  An empty container   *)
(* whose cursor cannot be placed is reported and the command returns 0.    *)
(***************************************************************************)
CursorCmds == {"sstable-dump", "sstable-keys", "sstable-stats", "wal-dump", "wal-verify"}

PositionalCmds == {"sstable-dump-full", "sstable-checksum"}

TableWalkers == {"sstable-dump", "sstable-keys", "sstable-stats", "sstable-dump-full"}

\* The locals of each command as declared before its loop.
Locals(c) ==
    CASE c = "sstable-dump" ->
           [cur |-> 1, total_entries |-> 0, block_num |-> 0, summary_blocks |-> 0,
            reads |-> 0, warned |-> FALSE, ev |-> << >>, exit |-> "none", ret |-> 0]
      [] c = "sstable-keys" ->
           [cur |-> 1, total_keys |-> 0, first_key |-> NullKey, last_key |-> NullKey,
            mallocs |-> 0, key_range |-> FALSE,
            reads |-> 0, warned |-> FALSE, ev |-> << >>, exit |-> "none", ret |-> 0]
      [] c = "sstable-stats" ->
           [cur |-> 1, total_entries |-> 0, tombstone_count |-> 0, ttl_count |-> 0,
            vlog_count |-> 0, min_seq |-> UINT64_MAX, max_seq |-> {},
            total_key_size |-> {}, total_value_size |-> {},
            min_key_size |-> UINT64_MAX, max_key_size |-> {},
            min_value_size |-> UINT64_MAX, max_value_size |-> {},
            block_count |-> 0, reads |-> 0, warned |-> FALSE, ev |-> << >>,
            exit |-> "none", ret |-> 0]
      [] c = "wal-dump" ->
           [cur |-> 1, entry_num |-> 0, reads |-> 0, warned |-> FALSE, ev |-> << >>,
            exit |-> "none", ret |-> 0]
      [] c = "wal-verify" ->
           [cur |-> 1, valid_entries |-> 0, corrupted_entries |-> 0,
            min_seq |-> UINT64_MAX, max_seq |-> {}, last_valid_pos |-> 0,
            status |-> "none", reads |-> 0, warned |-> FALSE, ev |-> << >>,
            exit |-> "none", ret |-> 0]
      [] c = "sstable-dump-full" ->
           [pos |-> FILE_HEADER_SIZE, st_size |-> 0, total_entries |-> 0, block_num |-> 0,
            checksum_errors |-> 0, reads |-> 0, preads |-> << >>, warned |-> FALSE,
            ev |-> << >>, exit |-> "none", ret |-> 0]
      [] c = "sstable-checksum" ->
           [pos |-> FILE_HEADER_SIZE, st_size |-> 0, block_num |-> 0, valid_blocks |-> 0,
            invalid_blocks |-> 0, preads |-> << >>, warned |-> FALSE, ev |-> << >>,
            exit |-> "none", status |-> "none", ret |-> 0]
      [] c \in {"sstable-list", "wal-list"} ->
           [ev |-> << >>, exit |-> "none", ret |-> 0, count |-> 0]
      [] c = "bloom-stats" ->
           [ev |-> << >>, exit |-> "none", ret |-> 0, at |-> 0, msg |-> "none",
            bits_set |-> 0, fill_ratio |-> <<0, 1>>, estimated_fpr |-> <<0, 1>>,
            high_fill |-> FALSE,
            bf |-> [m |-> 0, h |-> 0, size_in_words |-> 0, bitset |-> << >>]]
      [] c \in {"sstable-info", "wal-info"} ->
           [ev |-> << >>, exit |-> "none", ret |-> 0]
      [] OTHER -> [ret |-> 0]

\* The long that strtol returned is held as its low 31 bits (`parsed') and the
\* set of its bits 31..63 (`high').  parsed > 0 on the long:
LongPositive(arg) == 63 \notin arg.high /\ (arg.parsed > 0 \/ arg.high # {})

\* (int)parsed: the low 32 bits, bit 31 being the sign.
IntOfLong(arg) ==
    IF 31 \in arg.high THEN (arg.parsed - 1073741824) - 1073741824 ELSE arg.parsed

\* int limit = ADMINTOOL_DEFAULT_DUMP_LIMIT; a parsed argument replaces it when positive.
EffectiveLimit(arg) ==
    IF arg.given /\ LongPositive(arg) THEN IntOfLong(arg) ELSE ADMINTOOL_DEFAULT_DUMP_LIMIT

\* The limit of command c.  sstable-dump-full takes it from argv[3] when argv[2]
\* is a regular file and from argv[2] otherwise: when argv[2] is neither a regular
\* file nor a number, no argument is taken as the limit.
CommandLimit(c, e) ==
    IF c = "sstable-dump-full" /\ e.vlog_missing THEN ADMINTOOL_DEFAULT_DUMP_LIMIT
    ELSE EffectiveLimit(e.limit_arg)

\* The commands that warn about a file above ADMINTOOL_LARGE_FILE_THRESHOLD.
WarningCmds == {"sstable-dump", "sstable-keys", "wal-dump"}

\* The command returns from its prologue with `code'.
BeginReturn(s, why, code, evs) ==
    /\ pc' = "done"
    /\ st' = [s EXCEPT !.exit = why, !.ret = code, !.ev = @ \o evs]

\* block_manager_open, block_manager_cursor_init and block_manager_cursor_goto_first.
BeginCursor(s) ==
    IF env.openFails THEN BeginReturn(s, "open", -1, << >>)
    ELSE IF env.cursorFails
    THEN BeginReturn(IF cmd = "wal-verify" THEN [s EXCEPT !.status = "FAILED"] ELSE s,
                     "cursor", -1, <<"bm_open", "bm_close">>)
    ELSE IF ~CursorGotoFirstOk
    THEN BeginReturn(IF cmd = "wal-verify" THEN [s EXCEPT !.status = "OK"] ELSE s,
                     "empty", 0, <<"bm_open", "cursor_init", "cursor_free", "bm_close">>)
    ELSE /\ pc' = "run"
         /\ st' = [s EXCEPT !.ev = @ \o <<"bm_open", "cursor_init">>]

\* struct stat st; fstat(fd, &st): st.st_size as the loop test reads it.  When
\* fstat fails the structure is left as it was declared, uninitialised, and
\* sstable-dump-full reads it all the same: the value is whatever the stack
\* slot holds (the size of another file, for one), any number at all.  The
\* scan never stands further than one trailer past the end of the file (the
\* payload before it was read whole), so every value above Len(file) + 8 acts
\* alike: the loop is entered at every position and ends on a header read that
\* comes back short.  Every value up to there is drawn, and one far beyond.
FstatSizes ==
    IF env.statFails
    THEN 0..(Len(file) + BLOCK_TRAILER_SIZE + 1) \cup {Len(file) + MAX_BLOCK_SIZE}
    ELSE {Len(file)}

\* open(2) and the fstat, checked in sstable-checksum and unchecked in
\* sstable-dump-full.
BeginPositional(s) ==
    IF env.openFails THEN BeginReturn(s, "open", -1, << >>)
    ELSE IF cmd = "sstable-checksum" /\ env.statFails
    THEN BeginReturn(s, "stat", -1, <<"open", "close">>)
    ELSE /\ pc' = "run"
         /\ \E size \in FstatSizes :
                st' = [s EXCEPT !.ev = @ \o <<"open">>, !.st_size = size]

Begin ==
    /\ pc = "start"
    /\ cmd \in CursorCmds \cup PositionalCmds
    /\ UNCHANGED <<cmd, blocks, nextEof, file, vlog, limit, env, call, out, log>>
    /\ IF cmd \in CursorCmds
       THEN BeginCursor([st EXCEPT !.warned = cmd \in WarningCmds /\ env.large])
       ELSE BeginPositional(st)

(***************************************************************************)
(* The inspection commands without a loop: sstable-info, wal-info and      *)
(* bloom-stats.  One action is the whole command; what the block manager   *)
(* and the filter library answer is drawn by the action.                   *)
(***************************************************************************)
\* The command returns `code' having gone through the events `evs'.
Inspected(why, code, evs) ==
    /\ pc' = "done"
    /\ st' = [st EXCEPT !.exit = why, !.ret = code, !.ev = evs]
    /\ UNCHANGED <<cmd, blocks, nextEof, file, vlog, limit, env, call, out, log>>

\* A cursor placement followed by a read; the block, if any, is released.
Peek(got) == IF got THEN ReadRelease ELSE << >>

SstableInfoStep ==
    /\ cmd = "sstable-info" /\ pc = "start"
    /\ IF env.openFails THEN Inspected("open", -1, << >>)
       ELSE IF blocks = << >> \/ env.cursorFails
       THEN Inspected("end", 0, <<"bm_open", "bm_close">>)
       ELSE \E first_got, last_got \in BOOLEAN :
              Inspected("end", 0,
                        <<"bm_open", "cursor_init">> \o Peek(first_got) \o Peek(last_got)
                            \o CursorClose)

\* The two commands that list the files of a column family directory.
ListCmds == {"sstable-list", "wal-list"}

MaxDirEntries == 2   \* most entries readdir gives

\* What readdir gives for one entry: whether the name holds the suffix looked
\* for, and whether stat on its path succeeds.
DirEntries == UNION {[1..k -> BOOLEAN \X BOOLEAN] : k \in 0..MaxDirEntries}

\* if (strstr(entry->d_name, suffix) != NULL) ... if (stat(full_path, &st) == 0) count++;
ListedCount(entries) ==
    Cardinality({i \in 1..Len(entries) : entries[i][1] /\ entries[i][2]})

\* The command of ListCmds returns `code' with `count' files listed.
Listed(why, code, evs, count) ==
    /\ pc' = "done"
    /\ st' = [st EXCEPT !.exit = why, !.ret = code, !.ev = evs, !.count = count]
    /\ UNCHANGED <<cmd, blocks, nextEof, file, vlog, limit, env, call, out, log>>

\* sstable-list and wal-list: the argument count, the open database, the
\* column family, opendir, the readdir loop and closedir.
ListCommand ==
    \E argc_ok, db_open, cf_found, dir_opens \in BOOLEAN :
        IF ~argc_ok THEN Listed("usage", -1, << >>, 0)
        ELSE IF ~db_open THEN Listed("nodb", -1, << >>, 0)
        ELSE IF ~cf_found THEN Listed("nocf", -1, << >>, 0)
        ELSE IF ~dir_opens THEN Listed("opendir", -1, << >>, 0)
        ELSE \E entries \in DirEntries :
               Listed("end", 0, <<"opendir", "closedir">>, ListedCount(entries))

SstableListStep == cmd = "sstable-list" /\ pc = "start" /\ ListCommand

WalListStep == cmd = "wal-list" /\ pc = "start" /\ ListCommand

WalInfoStep ==
    /\ cmd = "wal-info" /\ pc = "start"
    /\ IF env.openFails THEN Inspected("open", -1, << >>)
       ELSE Inspected("end", 0, <<"bm_open", "bm_close">>)

\* Exits where a filter that does not deserialize passes as success.
BloomExitsLenient ==
    {<<"last", -1>>, <<"prev", -1>>, <<"read", -1>>, <<"empty", 0>>,
     <<"deserialize", 0>>, <<"ok", 0>>}

\* The exits of bloom-stats once the cursor exists, with their return values.
BloomExits ==
    {<<"last", -1>>, <<"prev", -1>>, <<"read", -1>>, <<"empty", 0>>,
     <<"deserialize", -1>>, <<"ok", 0>>}

\* What bloom-stats holds between cursor_init and the exit `why'.
BloomHeld(why) ==
    CASE why \in {"last", "prev", "read"} -> << >>
      [] why \in {"empty", "deserialize"} -> ReadRelease
      [] OTHER -> <<"read", "bloom_filter_deserialize", "bloom_filter_free", "release">>

\* The exit `why' is one the container allows: the filter block is the second
\* from last, and it is empty or not.
BloomAllows(why) ==
    /\ why = "empty" => blocks[Len(blocks) - 1] = << >>
    /\ why \in {"deserialize", "ok"} => blocks[Len(blocks) - 1] # << >>

\* What the command prints on the exit `why'.
BloomMessage(why) ==
    CASE why = "open" -> "Failed to open SSTable file"
      [] why = "few" -> "SSTable has insufficient blocks"
      [] why = "cursor" -> "Failed to create cursor"
      [] why = "last" -> "Failed to seek to last block"
      [] why = "prev" -> "Failed to seek to bloom filter block"
      [] why = "read" -> "Failed to read bloom filter block"
      [] why = "empty" -> "Bloom Filter: disabled (empty block)"
      [] why = "deserialize" -> "Failed to deserialize bloom filter"
      [] OTHER -> "Bloom Filter Statistics"

\* The block the cursor stands on when the exit `why' is taken: goto_last puts
\* it on the last block, prev on the one before; 0 when it was never placed.
BloomCursorAt(why) ==
    CASE why \in {"open", "few", "cursor", "last"} -> 0
      [] why = "prev" -> Len(blocks)
      [] OTHER -> Len(blocks) - 1

RECURSIVE WordBitsSet(_)
\* The inner while loop: add word & 1, shift right, until the word is zero.
WordBitsSet(word) ==
    IF word = {} THEN 0
    ELSE (IF 0 \in word THEN 1 ELSE 0) + WordBitsSet({b - 1 : b \in word \ {0}})

RECURSIVE BitsSetFrom(_, _)
\* The for loop over bitset[i .. size_in_words - 1].
BitsSetFrom(bf, i) ==
    IF i >= bf.size_in_words THEN 0
    ELSE WordBitsSet(bf.bitset[i + 1]) + BitsSetFrom(bf, i + 1)

RECURSIVE Gcd(_, _)
Gcd(a, b) == IF b = 0 THEN a ELSE Gcd(b, a % b)

\* The quotient a / b as a fraction in lowest terms.
Ratio(a, b) == <<a \div Gcd(a, b), b \div Gcd(a, b)>>

\* pow(r, h) on a fraction.
RatioPow(r, h) == <<r[1] ^ h, r[2] ^ h>>

\* A warning that is also given at one half.
AtLeastHalf(r) == 2 * r[1] >= r[2]

\* fill_ratio > 0.5.  bits_set and m are below 2^53 and 0.5 is a double, so the
\* rounded quotient exceeds 0.5 exactly when the quotient does.
AboveHalf(r) == 2 * r[1] > r[2]

\* The statistics printed for the filter bf.
BloomReport(s, bf) ==
    [s EXCEPT !.bf = bf,
              !.bits_set = BitsSetFrom(bf, 0),
              !.fill_ratio = Ratio(BitsSetFrom(bf, 0), bf.m),
              !.estimated_fpr = RatioPow(Ratio(BitsSetFrom(bf, 0), bf.m), bf.h),
              !.high_fill = AboveHalf(Ratio(BitsSetFrom(bf, 0), bf.m))]

\* bloom-stats returns `code' on the exit `why'.
BloomReturn(s, why, code, evs) ==
    /\ pc' = "done"
    /\ st' = [s EXCEPT !.exit = why, !.ret = code, !.ev = evs,
                       !.msg = BloomMessage(why), !.at = BloomCursorAt(why)]
    /\ UNCHANGED <<cmd, blocks, nextEof, file, vlog, limit, env, call, out, log>>

\* A bit array of `words' words whose first n bits are set.
FirstBits(words, n) == [w \in 1..words |-> {b \in 0..63 : 64 * (w - 1) + b < n}]

\* Filters that bloom_filter_deserialize may hand back: 1000 bits around half
\* full, and one-word filters, some with bits set beyond m.
BloomFilters ==
    {[m |-> 1000, h |-> 4, size_in_words |-> 16, bitset |-> FirstBits(16, 500)],
     [m |-> 1000, h |-> 3, size_in_words |-> 16, bitset |-> FirstBits(16, 501)],
     [m |-> 1000, h |-> 3, size_in_words |-> 16, bitset |-> FirstBits(16, 499)]}
    \cup {[m |-> 8, h |-> k, size_in_words |-> 1, bitset |-> <<w>>] :
             k \in 1..2, w \in {{}, {7}, {0, 2, 4, 6}, {0, 1, 2, 3, 63}, 0..7, 0..63}}

BloomStatsStep ==
    /\ cmd = "bloom-stats" /\ pc = "start"
    /\ IF env.openFails THEN BloomReturn(st, "open", -1, << >>)
       ELSE IF Len(blocks) < 3 THEN BloomReturn(st, "few", -1, <<"bm_open", "bm_close">>)
       ELSE IF env.cursorFails
       THEN BloomReturn(st, "cursor", -1, <<"bm_open", "bm_close">>)
       ELSE \E x \in BloomExits :
              /\ BloomAllows(x[1])
              /\ \E bf \in IF x[1] = "ok" THEN BloomFilters ELSE {<< >>} :
                    BloomReturn(IF x[1] = "ok" THEN BloomReport(st, bf) ELSE st,
                                x[1], x[2],
                                <<"bm_open", "cursor_init">> \o BloomHeld(x[1])
                                    \o CursorClose)

(***************************************************************************)
(* Direct calls of the two helper functions.                               *)
(***************************************************************************)
VarintCall ==
    /\ call.fn = "decode_varint_safe" /\ ~call.done
    /\ call' = [call EXCEPT !.done = TRUE,
                            !.res = decode_varint_safe(call.data, call.max_bytes)]
    /\ UNCHANGED <<cmd, pc, blocks, nextEof, file, vlog, limit, env, st, out, log>>

ReadVlogCall ==
    /\ call.fn = "read_vlog_value" /\ ~call.done
    /\ call' = [call EXCEPT !.done = TRUE,
                            !.res = read_vlog_value(vlog, call.vlog_offset, env.vlogOom)]
    /\ UNCHANGED <<cmd, pc, blocks, nextEof, file, vlog, limit, env, st, out, log>>

(***************************************************************************)
(* The record layout, written by a synthetic encoder: flags, the three     *)
(* varints, the optional 8-byte TTL, the optional value-log offset varint, *)
(* the key bytes and, unless HAS_VLOG is set, the value bytes.             *)
(***************************************************************************)
\* The 7-bit group i (from 0) of a word.
Group7(W, i) == NatOfBits({b - 7 * i : b \in W \cap (7 * i)..(7 * i + 6)})

EncodeVarint(W) ==
    LET n == IF W = {} THEN 1 ELSE (MaxOf(W) \div 7) + 1
    IN [i \in 1..n |-> Group7(W, i - 1) + (IF i < n THEN 128 ELSE 0)]

EncodeRecord(r) ==
    <<r.flags>> \o EncodeVarint(BitsOfNat(Len(r.key))) \o EncodeVarint(r.value_size)
        \o EncodeVarint(r.seq)
        \o (IF HasFlag(r.flags, TDB_KV_FLAG_HAS_TTL) THEN r.ttl ELSE << >>)
        \o (IF HasFlag(r.flags, TDB_KV_FLAG_HAS_VLOG)
            THEN EncodeVarint(r.vlog_offset) ELSE << >>)
        \o r.key
        \o (IF HasFlag(r.flags, TDB_KV_FLAG_HAS_VLOG) THEN << >> ELSE r.value)

\* A record to encode: inline records state the size of their value, value-log
\* records the size of the value stored in the companion file.
MkRecord(flags, key, value, vsize, seq, off) ==
    [flags |-> flags, key |-> key, seq |-> seq, ttl |-> <<1, 2, 3, 4, 5, 6, 7, 8>>,
     value |-> IF HasFlag(flags, TDB_KV_FLAG_HAS_VLOG) THEN << >> ELSE value,
     value_size |-> IF HasFlag(flags, TDB_KV_FLAG_HAS_VLOG) THEN vsize
                    ELSE BitsOfNat(Len(value)),
     vlog_offset |-> IF HasFlag(flags, TDB_KV_FLAG_HAS_VLOG) THEN off ELSE {}]

(***************************************************************************)
(* The container layout of the positional scanners: an 8-byte file header, *)
(* then per block the payload length and the stored checksum (4 bytes      *)
(* each, little-endian), the payload and an 8-byte trailer.                *)
(***************************************************************************)
U32LE(n) == <<n % 256, (n \div 256) % 256, (n \div 65536) % 256, (n \div 16777216) % 256>>

FileHeader == <<84, 68, 66, 1, 0, 0, 0, 0>>

Trailer == <<170, 171, 172, 173, 174, 175, 176, 177>>

\* A stored checksum that differs from the digest of the payload.
WrongSum(data) == (Digest(data, 0) + 1) % 65521

BlockBytes(data, good) ==
    U32LE(Len(data)) \o U32LE(IF good THEN Digest(data, 0) ELSE WrongSum(data))
        \o data \o Trailer

RECURSIVE BlocksBytes(_, _, _)
\* Blocks k.. of bs; block `bad' carries a wrong stored checksum.
BlocksBytes(bs, bad, k) ==
    IF k > Len(bs) THEN << >>
    ELSE BlockBytes(bs[k], k # bad) \o BlocksBytes(bs, bad, k + 1)

\* A last block header declaring no payload or more than the ceiling.
TailHeader(tail) ==
    CASE tail = "zero" -> U32LE(0) \o U32LE(0)
      [] tail = "huge" -> U32LE(MAX_BLOCK_SIZE + 1) \o U32LE(0)
      [] OTHER -> << >>

\* The file, with its last `cut' bytes missing.
FileBytes(bs, bad, tail, cut) ==
    LET all == FileHeader \o BlocksBytes(bs, bad, 1) \o TailHeader(tail)
    IN SubSeq(all, 1, IF cut < Len(all) THEN Len(all) - cut ELSE 0)

(***************************************************************************)
(* Bounds of the model and the inputs drawn within them.                   *)
(***************************************************************************)
MaxRaw == 3         \* longest window enumerated byte by byte
MaxRun == 11        \* longest run of continuation bytes

SeqsUpTo(S, n) == UNION {[1..k -> S] : k \in 0..n}

Run(b, c) == [i \in 1..c |-> b]

VarintBytes == {0, 1, 127, 128, 129, 255}

VarintWindows ==
    SeqsUpTo(VarintBytes, MaxRaw)
        \cup {Run(cb, c) \o t : cb \in {128, 129, 255}, c \in 0..MaxRun,
                                t \in {<< >>, <<0>>, <<1>>, <<127>>, <<3, 128>>}}

NoCall == [fn |-> "none", done |-> TRUE]

NoVlogFile == [path |-> FALSE, opens |-> FALSE, bytes |-> << >>]

NoArg == [given |-> FALSE, parsed |-> 0, high |-> {}]

\* Nothing fails, the file is small, and the only optional argument is the limit.
CalmEnv ==
    [oomAt |-> -1, vlogOom |-> FALSE, limit_arg |-> NoArg, openFails |-> FALSE,
     cursorFails |-> FALSE, statFails |-> FALSE, large |-> FALSE, vlog_missing |-> FALSE]

\* No command runs: only a helper function is called.
Idle ==
    /\ cmd = "none" /\ pc = "done" /\ blocks = << >> /\ nextEof = TRUE
    /\ file = << >> /\ limit = ADMINTOOL_DEFAULT_DUMP_LIMIT
    /\ st = Locals("none") /\ out = << >> /\ log = NoLog

InitVarint ==
    /\ Idle /\ vlog = NoVlogFile /\ env = CalmEnv
    /\ \E d \in VarintWindows : \E m \in 0..Len(d) :
         call = [fn |-> "decode_varint_safe", data |-> d, max_bytes |-> m,
                 done |-> FALSE, res |-> [ret |-> 0, value |-> {}, inspected |-> 0]]

NextVarint == VarintCall

SpecVarint == InitVarint /\ [][NextVarint]_vars

(***************************************************************************)
(* C4: decode_varint_safe inspects only bytes below min(max_bytes, 10); it *)
(* returns n in 1..min(max_bytes, 10) exactly when byte n - 1 is the first *)
(* of those bytes with the continuation bit clear, and -1 exactly when     *)
(* none of them has it clear (max_bytes = 0 included).                     *)
(***************************************************************************)
VarintCap(m) == Min(m, VARINT_MAX_BYTES)

\* The 1-based positions, among the first min(max_bytes, 10), of bytes below 0x80.
Terminators(d, m) == {i \in 1..VarintCap(m) : d[i] < 128}

C4_VarintBounded ==
    (call.fn = "decode_varint_safe" /\ call.done) =>
        LET T == Terminators(call.data, call.max_bytes)
            r == call.res
        IN /\ r.inspected <= VarintCap(call.max_bytes)
           /\ (r.ret = -1) <=> (T = {})
           /\ T # {} => /\ r.ret \in 1..VarintCap(call.max_bytes)
                        /\ r.ret \in T
                        /\ \A j \in T : r.ret <= j
                        /\ r.inspected = r.ret
           /\ r.ret \in {-1} \cup 1..VarintCap(call.max_bytes)

\* A window of more than ten continuation bytes, all offered, is refused at the cap.
C4_Witness ==
    /\ call.fn = "decode_varint_safe" /\ call.done
    /\ call.max_bytes > VARINT_MAX_BYTES
    /\ call.res.ret = -1
    /\ call.res.inspected = VARINT_MAX_BYTES

(***************************************************************************)
(* C5: on success after n bytes the value is the sum of                    *)
(* (b_i mod 128) * 128^i over i < n, reduced modulo 2^64.                  *)
(***************************************************************************)
Double64(W) == AddWords(W, W)

RECURSIVE TimesPow128(_, _)
\* W * 128^i modulo 2^64, by repeated doubling.
TimesPow128(W, i) ==
    IF i = 0 THEN W
    ELSE TimesPow128(Double64(Double64(Double64(Double64(Double64(Double64(Double64(W))))))), i - 1)

RECURSIVE VarintSum(_, _)
VarintSum(d, n) ==
    IF n = 0 THEN {}
    ELSE AddWords(VarintSum(d, n - 1), TimesPow128(BitsOfNat(d[n] % 128), n - 1))

RECURSIVE SmallSum(_, _)
\* The same sum on integers, for at most four bytes.
SmallSum(d, n) ==
    IF n = 0 THEN 0 ELSE SmallSum(d, n - 1) + (d[n] % 128) * (128 ^ (n - 1))

C5_VarintValue ==
    (call.fn = "decode_varint_safe" /\ call.done /\ call.res.ret > 0) =>
        /\ call.res.value = VarintSum(call.data, call.res.ret)
        /\ call.res.ret <= 4 => /\ IsSmall(call.res.value)
                                /\ NatOfBits(call.res.value) = SmallSum(call.data, call.res.ret)

\* Ten bytes decode, and the tenth carries bits that fall above bit 63.
C5_Witness ==
    /\ call.fn = "decode_varint_safe" /\ call.done
    /\ call.res.ret = VARINT_MAX_BYTES
    /\ call.data[VARINT_MAX_BYTES] = 127
    /\ 63 \in call.res.value

(***************************************************************************)
(* Inputs of the walkers.                                                  *)
(***************************************************************************)
MaxRawRec == 4      \* longest payload enumerated byte by byte
MaxBlocks == 2      \* most blocks in a table file
MaxWalBlocks == 4   \* most blocks in a log file

Walkers == CursorCmds \cup {"sstable-dump-full"}

OneArg == [given |-> TRUE, parsed |-> 1, high |-> {}]

TwoArg == [given |-> TRUE, parsed |-> 2, high |-> {}]

ZeroArg == [given |-> TRUE, parsed |-> 0, high |-> {}]

\* The state in which command c starts on the given container.
Start(c, bs, eof, bytes, vl, e, cl) ==
    /\ cmd = c /\ pc = "start" /\ blocks = bs /\ nextEof = eof /\ file = bytes
    /\ vlog = vl /\ env = e /\ limit = CommandLimit(c, e)
    /\ st = Locals(c) /\ out = << >> /\ log = NoLog /\ call = cl

Seq64Max == UINT64_MAX

RecordBytes == {0, 1, 2, 4, 128}

RawWindows == SeqsUpTo(RecordBytes, MaxRawRec)

PoolKeys == {<< >>, <<107, 101>>}

PoolValues == {<< >>, <<118, 97>>}

PoolSeqs == {BitsOfNat(5), BitsOfNat(300), Seq64Max}

PoolSizes == {{}, BitsOfNat(3)}

PoolOffsets == {{}, BitsOfNat(200)}

PoolFlags == {0, 1, 2, 4, 6, 8, 14}

\* Records with an inline value, and records whose value lives in the value log.
RecordPool ==
    {MkRecord(f, k, v, {}, q, {}) :
        f \in {x \in PoolFlags : ~HasFlag(x, TDB_KV_FLAG_HAS_VLOG)},
        k \in PoolKeys, v \in PoolValues, q \in PoolSeqs}
    \cup
    {MkRecord(f, k, << >>, z, q, o) :
        f \in {x \in PoolFlags : HasFlag(x, TDB_KV_FLAG_HAS_VLOG)},
        k \in PoolKeys, z \in PoolSizes, q \in PoolSeqs, o \in PoolOffsets}

\* What may follow the first record of a payload.
Tails == {<< >>, <<0, 0, 0, 1>>, <<255>>}

Encoded(r, tail, keep) ==
    [fn |-> "EncodeRecord", done |-> TRUE, rec |-> r, tail |-> tail, keep |-> keep]

\* One block: a byte-enumerated window, an encoded record with something
\* after it, or an encoded record cut short at any offset.
InitWindow ==
    \E c \in Walkers :
        \/ \E w \in RawWindows :
             Start(c, <<w>>, TRUE, FileBytes(<<w>>, 0, "none", 0), NoVlogFile,
                   CalmEnv, NoCall)
        \/ \E r \in RecordPool : \E t \in Tails : \E la \in {NoArg, OneArg} :
             LET w == EncodeRecord(r) \o t
             IN Start(c, <<w>>, TRUE, FileBytes(<<w>>, 0, "none", 0), NoVlogFile,
                      [CalmEnv EXCEPT !.limit_arg = la],
                      Encoded(r, t, Len(EncodeRecord(r))))
        \/ \E r \in RecordPool : \E n \in 0..(Len(EncodeRecord(r)) - 1) :
             LET w == SubSeq(EncodeRecord(r), 1, n)
             IN Start(c, <<w>>, TRUE, FileBytes(<<w>>, 0, "none", 0), NoVlogFile,
                      CalmEnv, Encoded(r, << >>, n))

NextWalkers ==
    \/ Begin
    \/ SstableDumpStep
    \/ SstableKeysStep
    \/ SstableStatsStep
    \/ DumpFullStep
    \/ WalDumpStep
    \/ WalVerifyStep

SpecWindow == InitWindow /\ [][NextWalkers]_vars

(***************************************************************************)
(* C2: in every walker, every byte the record decoder reads lies below the *)
(* length L of the window, and after every step the bytes consumed plus    *)
(* the bytes remaining are L with no underflow; a well-formed payload cut  *)
(* short at any offset ends in a decode failure, in all six walkers.       *)
(***************************************************************************)
\* Every position/budget pair the attempt went through.
StepsWithin(d, L) ==
    \A i \in 1..Len(d.c.steps) :
        d.c.steps[i][2] >= 0 /\ d.c.steps[i][1] + d.c.steps[i][2] = L

AttemptWithin(d, L) ==
    /\ d.c.hi <= L
    /\ StepsWithin(d, L)
    /\ d.c.remaining >= 0 /\ d.c.ptr + d.c.remaining = L
    /\ d.ok <=> d.fail = "none"

\* The payload is the encoding of call.rec cut short.
CutShort == call.fn = "EncodeRecord" /\ call.keep < Len(EncodeRecord(call.rec))

C2_WindowSafety ==
    cmd \in Walkers =>
        /\ \A i \in 1..Len(log.attempts) : AttemptWithin(log.attempts[i], log.L)
        /\ (CutShort /\ log.attempts # << >>) => ~log.attempts[1].ok

\* wal-dump on a record with HAS_TTL cut before its 8 TTL bytes: every read is
\* inside the window of 4 bytes, and the record is decoded all the same.
C2_CutRecordDecoded ==
    /\ cmd = "wal-dump" /\ CutShort /\ log.attempts # << >>
    /\ log.L = 4 /\ HasFlag(log.attempts[1].rec.flags, TDB_KV_FLAG_HAS_TTL)
    /\ AttemptWithin(log.attempts[1], log.L)
    /\ log.attempts[1].ok

(***************************************************************************)
(* C3 (as stated): in every walker a decode step whose field does not fit  *)
(* in the remaining bytes ends the record, which is then neither emitted   *)
(* nor counted; in particular no entry is emitted for a record with        *)
(* HAS_TTL and fewer than 8 bytes remaining, nor for one whose inline      *)
(* value is longer than the remaining bytes.                               *)
(***************************************************************************)
\* An emitted entry carries the 8 TTL bytes its flags announce and the
\* inline value its value size announces.
EntryFits(e) ==
    /\ HasFlag(e.flags, TDB_KV_FLAG_HAS_TTL) => Len(e.ttl) = SIZEOF_INT64
    /\ (~HasFlag(e.flags, TDB_KV_FLAG_HAS_VLOG) /\ e.value_size # {}) => e.has_value

C3_UnfitNeverEmitted ==
    cmd \in {"sstable-dump", "sstable-dump-full", "wal-dump"} =>
        \A i \in 1..Len(out) : EntryFits(out[i])

\* wal-dump emits an entry whose flags carry HAS_TTL although no TTL was read.
C3_TtlPassedOver ==
    /\ cmd = "wal-dump" /\ out # << >>
    /\ HasFlag(out[1].flags, TDB_KV_FLAG_HAS_TTL) /\ out[1].ttl = << >>

(***************************************************************************)
(* C6: a record with DELTA_SEQ unset, encoded in the record layout and     *)
(* placed first in a block payload, is decoded by the table walkers to its *)
(* sequence number, key bytes and inline value bytes, and the decoder      *)
(* consumes exactly the encoded length.                                    *)
(***************************************************************************)
\* The payload starts with the whole encoding of call.rec, DELTA_SEQ unset.
EncodedFirst ==
    /\ call.fn = "EncodeRecord" /\ call.keep = Len(EncodeRecord(call.rec))
    /\ ~HasFlag(call.rec.flags, TDB_KV_FLAG_DELTA_SEQ)

SameRecord(d, r) ==
    /\ d.ok
    /\ d.c.ptr = Len(EncodeRecord(r))
    /\ d.rec.flags = r.flags
    /\ d.rec.seq = r.seq
    /\ d.rec.key = r.key
    /\ d.rec.value = r.value
    /\ d.rec.has_value = (r.value # << >>)
    /\ d.rec.value_size = r.value_size
    /\ HasFlag(r.flags, TDB_KV_FLAG_HAS_TTL) => d.rec.ttl = r.ttl
    /\ HasFlag(r.flags, TDB_KV_FLAG_HAS_VLOG) => d.rec.vlog_offset = r.vlog_offset

C6_RoundTrip ==
    (cmd \in TableWalkers /\ EncodedFirst /\ pc # "start" /\ st.reads >= 1) =>
        /\ log.attempts # << >>
        /\ SameRecord(log.attempts[1], call.rec)
        /\ cmd # "sstable-stats" => out # << >> /\ out[1].key = call.rec.key
        /\ cmd \in {"sstable-dump", "sstable-dump-full"} =>
              out[1].seq = call.rec.seq /\ out[1].value = call.rec.value

\* A value-log record with a TTL and the largest sequence number, with bytes after it.
C6_Witness ==
    /\ cmd = "sstable-dump-full" /\ EncodedFirst /\ pc = "done"
    /\ call.rec.flags = TDB_KV_FLAG_HAS_TTL + TDB_KV_FLAG_HAS_VLOG
    /\ call.rec.seq = UINT64_MAX /\ call.rec.key # << >> /\ call.tail # << >>
    /\ out # << >> /\ out[1].seq = UINT64_MAX

(***************************************************************************)
(* C8 (as stated): wal-verify counts a non-empty block as valid exactly    *)
(* when the record decoder of the table walkers, started on the payload    *)
(* with previous sequence 0, decodes one complete record; otherwise the    *)
(* block is counted as corrupted.                                          *)
(***************************************************************************)
RecordDecoderAccepts(data) == DecodeRecord("sstable-dump", data, 0, Len(data), {}).ok

C8_VerifyIsRecordDecoder ==
    (cmd = "wal-verify" /\ pc # "start" /\ st.reads = 1 /\ blocks[1] # << >>) =>
        /\ (log.attempts[1].ok <=> RecordDecoderAccepts(blocks[1]))
        /\ st.valid_entries = (IF RecordDecoderAccepts(blocks[1]) THEN 1 ELSE 0)

\* A complete value-log record that wal-verify counts as corrupted.
C8_VlogRecordRefused ==
    /\ cmd = "wal-verify" /\ pc = "done" /\ blocks[1] # << >>
    /\ RecordDecoderAccepts(blocks[1])
    /\ st.valid_entries = 0 /\ st.corrupted_entries >= 1

(***************************************************************************)
(* Log files: up to MaxWalBlocks blocks, each a whole entry, an entry cut  *)
(* short, or an empty payload.                                             *)
(***************************************************************************)
WalPut == EncodeRecord(MkRecord(0, <<107>>, <<118, 97>>, {}, BitsOfNat(5), {}))

WalDelete == EncodeRecord(MkRecord(TDB_KV_FLAG_TOMBSTONE, <<107>>, << >>, {}, BitsOfNat(300), {}))

\* An entry whose value is cut off.
WalTorn == SubSeq(WalPut, 1, Len(WalPut) - 1)

WalPool == {WalPut, WalDelete, WalTorn, << >>}

InitWal ==
    \E bs \in SeqsUpTo(WalPool, MaxWalBlocks) : \E eof \in BOOLEAN :
        \/ Start("wal-verify", bs, eof, FileBytes(bs, 0, "none", 0), NoVlogFile,
                 CalmEnv, NoCall)
        \/ \E la \in {NoArg, TwoArg} :
             Start("wal-dump", bs, eof, FileBytes(bs, 0, "none", 0), NoVlogFile,
                   [CalmEnv EXCEPT !.limit_arg = la], NoCall)

NextWal ==
    \/ Begin
    \/ WalDumpStep
    \/ WalVerifyStep

SpecWal == InitWal /\ [][NextWal]_vars

(***************************************************************************)
(* C1 (as stated): when wal-verify has seen a corrupted block, the         *)
(* recovery boundary it reports is the start of the last valid block       *)
(* before the first corrupted one; valid blocks after it are counted but   *)
(* do not move the boundary.  For E1 valid, E2 valid, E3 corrupt, E4 valid *)
(* that is 3 valid, 1 corrupted and the start of E2's block.               *)
(***************************************************************************)
CorruptBlock(b) == b # << >> /\ ~WalVerifyDecode(b, 0, Len(b)).ok

ValidBlock(b) == b # << >> /\ WalVerifyDecode(b, 0, Len(b)).ok

\* The blocks before the first corrupted one.
Trusted(bs) == {i \in 1..Len(bs) : \A j \in 1..i : ~CorruptBlock(bs[j])}

\* The start of the last valid block among the trusted ones, 0 when there is none.
TrustedBoundary(bs) ==
    LET V == {i \in Trusted(bs) : ValidBlock(bs[i])}
    IN IF V = {} THEN 0 ELSE BlockPos(bs, MaxOf(V))

C1_BoundaryAtFirstBreak ==
    (cmd = "wal-verify" /\ pc = "done" /\ \E i \in 1..Len(blocks) : CorruptBlock(blocks[i])) =>
        /\ st.valid_entries = Cardinality({i \in 1..Len(blocks) : ValidBlock(blocks[i])})
        /\ st.last_valid_pos = TrustedBoundary(blocks)

\* E1 valid, E2 valid, E3 cut short, E4 valid: 3 valid, 1 corrupted, and the
\* boundary reported is the start of E4's block.
C1_LateBlockMovesBoundary ==
    /\ cmd = "wal-verify" /\ pc = "done"
    /\ blocks = <<WalPut, WalDelete, WalTorn, WalPut>>
    /\ st.valid_entries = 3 /\ st.corrupted_entries = 1
    /\ st.last_valid_pos = BlockPos(blocks, 4)
    /\ TrustedBoundary(blocks) = BlockPos(blocks, 2)

(***************************************************************************)
(* Table files: a last block of up to MaxRecs records after up to          *)
(* MaxBlocks - 1 blocks of one record each.                                *)
(***************************************************************************)
MaxRecs == 3        \* most records in a block

\* An absolute sequence number, a small delta, and a delta of 2^64 - 1.
SeqRecords ==
    {MkRecord(0, <<107>>, <<118>>, {}, BitsOfNat(5), {}),
     MkRecord(TDB_KV_FLAG_DELTA_SEQ, <<107>>, <<118>>, {}, BitsOfNat(1), {}),
     MkRecord(TDB_KV_FLAG_DELTA_SEQ, <<107>>, << >>, {}, UINT64_MAX, {})}

EncodeRecords(rs) == Concat([i \in 1..Len(rs) |-> EncodeRecord(rs[i])])

Payloads == {EncodeRecords(rs) : rs \in SeqsUpTo(SeqRecords, MaxRecs)}

LeadBlocks ==
    {EncodeRecord(MkRecord(TDB_KV_FLAG_DELTA_SEQ, <<97>>, <<118>>, {}, BitsOfNat(7), {}))}

TableFiles ==
    {lead \o <<p>> : lead \in SeqsUpTo(LeadBlocks, MaxBlocks - 1), p \in Payloads}
        \cup {<< >>}

Init ==
    \E c \in TableWalkers : \E bs \in TableFiles : \E eof \in BOOLEAN :
    \E la \in {NoArg, TwoArg} :
        Start(c, bs, eof, FileBytes(bs, 0, "none", 0), NoVlogFile,
              [CalmEnv EXCEPT !.limit_arg = la], NoCall)

Next ==
    \/ Begin
    \/ SstableDumpStep
    \/ SstableKeysStep
    \/ SstableStatsStep
    \/ DumpFullStep

Spec == Init /\ [][Next]_vars

(***************************************************************************)
(* C7: within one block the absolute sequence of a record is its encoded   *)
(* integer when DELTA_SEQ is unset, and the previous record's absolute     *)
(* sequence plus the encoded integer when it is set, the base being 0 at   *)
(* the start of every block.  C7_SeqDelta takes the sum modulo 2^64;       *)
(* C7_SeqDeltaUnbounded is the statement with the sum of the integers.     *)
(***************************************************************************)
RECURSIVE CarryAt(_, _, _)
\* The carry into bit i of the sum of two words.
CarryAt(A, B, i) ==
    IF i = 0 THEN FALSE
    ELSE \/ (i - 1) \in A /\ (i - 1) \in B
         \/ ((i - 1) \in A \/ (i - 1) \in B) /\ CarryAt(A, B, i - 1)

\* The sum of two words as an integer: 65 bits.
IntegerSum(A, B) ==
    {b \in 0..64 : IF b = 64 THEN CarryAt(A, B, 64)
                   ELSE ((b \in A) # (b \in B)) # CarryAt(A, B, b)}

\* The base of attempt i of a block: 0, or the sequence of the record before it.
SeqBase(attempts, i) == IF i = 1 THEN {} ELSE attempts[i - 1].rec.seq

SeqsFollow(Sum(_, _)) ==
    \A i \in 1..Len(log.attempts) :
        log.attempts[i].ok =>
            log.attempts[i].rec.seq =
                IF HasFlag(log.attempts[i].rec.flags, TDB_KV_FLAG_DELTA_SEQ)
                THEN Sum(SeqBase(log.attempts, i), log.attempts[i].rec.seq_value)
                ELSE log.attempts[i].rec.seq_value

SumMod64(A, B) == IntegerSum(A, B) \cap WordBits

C7_SeqDelta == cmd \in TableWalkers => SeqsFollow(SumMod64)

C7_SeqDeltaUnbounded == cmd \in TableWalkers => SeqsFollow(IntegerSum)

\* The second block opens with a delta record, read against base 0, and two
\* more deltas accumulate on it.
C7_Witness ==
    /\ cmd = "sstable-stats" /\ st.reads = 2 /\ Len(log.attempts) = 3
    /\ \A i \in 1..3 : /\ log.attempts[i].ok
                       /\ HasFlag(log.attempts[i].rec.flags, TDB_KV_FLAG_DELTA_SEQ)
    /\ log.attempts[1].rec.seq = BitsOfNat(1)
    /\ log.attempts[3].rec.seq = BitsOfNat(3)

(***************************************************************************)
(* Companion value-log files, direct calls of read_vlog_value on them, and *)
(* sstable-dump-full runs over records that point into them.               *)
(***************************************************************************)
MaxVlogCut == 4     \* most bytes missing from the end of a value-log file
MaxVlogRecs == 1    \* most records in the block of a table that has a value log

VlogValue == <<118, 97, 108>>

\* A value-log entry: the payload length, the stored checksum, the payload.
VlogEntry(data, good) ==
    U32LE(Len(data)) \o U32LE(IF good THEN Digest(data, 0) ELSE WrongSum(data)) \o data

CutTail(bytes, cut) == SubSeq(bytes, 1, IF cut < Len(bytes) THEN Len(bytes) - cut ELSE 0)

\* One entry at offset 8: whole or cut short, with a wrong checksum, or a
\* header declaring no payload or more than the ceiling.
VlogContents ==
    {CutTail(FileHeader \o VlogEntry(VlogValue, TRUE), cut) : cut \in 0..MaxVlogCut}
        \cup {FileHeader \o VlogEntry(VlogValue, FALSE),
              FileHeader \o TailHeader("zero"),
              FileHeader \o TailHeader("huge"),
              << >>}

VlogFiles ==
    {[path |-> TRUE, opens |-> o, bytes |-> b] : o \in BOOLEAN, b \in VlogContents}

\* The entry, the file header, past the end of the file, and far past it.
VlogOffsets == {BitsOfNat(8), {}, BitsOfNat(200), {40}}

VlogRecords ==
    {MkRecord(TDB_KV_FLAG_HAS_VLOG, <<107>>, << >>, BitsOfNat(3), BitsOfNat(5), BitsOfNat(8)),
     MkRecord(TDB_KV_FLAG_HAS_VLOG, <<107>>, << >>, {}, BitsOfNat(5), BitsOfNat(8)),
     MkRecord(TDB_KV_FLAG_HAS_VLOG, <<107>>, << >>, BitsOfNat(100), BitsOfNat(5), BitsOfNat(8)),
     MkRecord(TDB_KV_FLAG_HAS_VLOG, <<107>>, << >>, BitsOfNat(5), BitsOfNat(5), BitsOfNat(8)),
     MkRecord(0, <<107>>, <<118>>, {}, BitsOfNat(5), {})}

VlogTables == {<<EncodeRecords(rs)>> : rs \in SeqsUpTo(VlogRecords, MaxVlogRecs) \ {<< >>}}

InitVlog ==
    \E oom \in BOOLEAN :
        \/ /\ Idle /\ env = [CalmEnv EXCEPT !.vlogOom = oom]
           /\ vlog \in VlogFiles
           /\ \E o \in VlogOffsets :
                call = [fn |-> "read_vlog_value", vlog_offset |-> o, done |-> FALSE,
                        res |-> VlogFailure(0, << >>)]
        \/ \E bs \in VlogTables : \E vl \in VlogFiles \cup {NoVlogFile} :
             Start("sstable-dump-full", bs, TRUE, FileBytes(bs, 0, "none", 0), vl,
                   [CalmEnv EXCEPT !.vlogOom = oom], NoCall)

NextVlog ==
    \/ ReadVlogCall
    \/ Begin
    \/ DumpFullStep

SpecVlog == InitVlog /\ [][NextVlog]_vars

(***************************************************************************)
(* C9: read_vlog_value returns -1 when the companion file cannot be        *)
(* opened, the 8-byte header cannot be read whole at the offset, the       *)
(* declared length is 0 or above 100 MiB, or the payload cannot be read    *)
(* whole (no buffer for it included); -2 when all of that succeeds and the *)
(* digest of the payload differs from the stored one; the positive         *)
(* declared length otherwise.  A buffer is handed over only on success.    *)
(***************************************************************************)
LE32(b) == b[1] + 256 * b[2] + 65536 * b[3] + 16777216 * b[4]

\* The offset of the call as a number, when the file has 8 bytes there.
HeaderReadable ==
    /\ IsSmall(call.vlog_offset)
    /\ NatOfBits(call.vlog_offset) + 8 <= Len(vlog.bytes)

Declared == LE32(SubSeq(vlog.bytes, NatOfBits(call.vlog_offset) + 1,
                        NatOfBits(call.vlog_offset) + 4))

Stored == LE32(SubSeq(vlog.bytes, NatOfBits(call.vlog_offset) + 5,
                      NatOfBits(call.vlog_offset) + 8))

PayloadReadable ==
    ~env.vlogOom /\ NatOfBits(call.vlog_offset) + 8 + Declared <= Len(vlog.bytes)

Payload == SubSeq(vlog.bytes, NatOfBits(call.vlog_offset) + 9,
                  NatOfBits(call.vlog_offset) + 8 + Declared)

StructuralFailure ==
    \/ ~vlog.opens
    \/ ~HeaderReadable
    \/ Declared = 0 \/ Declared > MAX_BLOCK_SIZE
    \/ ~PayloadReadable

C9_VlogOutcomes ==
    (call.fn = "read_vlog_value" /\ call.done) =>
        /\ call.res.ret = -1 <=> StructuralFailure
        /\ call.res.ret = -2 <=> (~StructuralFailure /\ Digest(Payload, 0) # Stored)
        /\ call.res.ret > 0 <=> (~StructuralFailure /\ Digest(Payload, 0) = Stored)
        /\ call.res.ret > 0 => call.res.ret = Declared /\ call.res.value_out = Payload
        /\ call.res.ret \in {-1, -2} \/ call.res.ret > 0
        /\ call.res.handed <=> call.res.ret > 0

\* The entry is read whole and its stored checksum is wrong: -2, no buffer.
C9_Witness ==
    /\ call.fn = "read_vlog_value" /\ call.done
    /\ call.res.ret = -2 /\ ~call.res.handed
    /\ ~StructuralFailure

(***************************************************************************)
(* C10: sstable-dump-full renders an emitted HAS_VLOG record in one of     *)
(* four ways: NO_VLOG_FILE when no companion file was supplied, READ_ERR   *)
(* when the resolution failed structurally, CHECKSUM_ERR when the payload  *)
(* failed its checksum, and the value (or its byte count) without a marker *)
(* when the resolution succeeded; the four renderings differ pairwise.     *)
(* C10_FourRenderings states it for records whose value size is positive,  *)
(* C10_EveryVlogRecord for every HAS_VLOG record.                          *)
(***************************************************************************)
Unresolved(e) == e.text.kind = "not retrieved"

\* The rendering the entry's situation calls for.
RenderedAsStated(e) ==
    /\ ~vlog.path => e.marker = "NO_VLOG_FILE" /\ Unresolved(e)
    /\ (vlog.path /\ e.vlog_status = -1) => e.marker = "READ_ERR" /\ Unresolved(e)
    /\ (vlog.path /\ e.vlog_status = -2) => e.marker = "CHECKSUM_ERR" /\ Unresolved(e)
    /\ (vlog.path /\ e.vlog_status > 0) =>
           e.marker = "none" /\ e.text.kind \in {"bytes", "count"}
    /\ \/ ~vlog.path
       \/ vlog.path /\ e.vlog_status \in {-1, -2}
       \/ vlog.path /\ e.vlog_status > 0

VlogEntries == {i \in 1..Len(out) : HasFlag(out[i].flags, TDB_KV_FLAG_HAS_VLOG)}

C10_FourRenderings ==
    cmd = "sstable-dump-full" =>
        \A i \in VlogEntries : out[i].value_size # {} => RenderedAsStated(out[i])

C10_EveryVlogRecord ==
    cmd = "sstable-dump-full" => \A i \in VlogEntries : RenderedAsStated(out[i])

\* A record whose value-log entry fails its checksum is emitted with CHECKSUM_ERR.
C10_Witness ==
    /\ cmd = "sstable-dump-full" /\ out # << >>
    /\ 1 \in VlogEntries /\ out[1].value_size # {}
    /\ out[1].vlog_status = -2 /\ out[1].marker = "CHECKSUM_ERR"

(***************************************************************************)
(* Container files for the positional scanners: up to MaxScanBlocks        *)
(* blocks, at most one of them with a wrong stored checksum, an optional   *)
(* last header declaring a refused length, and up to MaxScanCut bytes      *)
(* missing from the end.                                                   *)
(***************************************************************************)
MaxScanBlocks == 3   \* most blocks in a scanned file
MaxScanCut == 20     \* most bytes missing from the end of a scanned file

ScanPayloads ==
    {WalPut,
     EncodeRecords(<<MkRecord(0, <<107>>, <<118>>, {}, BitsOfNat(5), {}),
                     MkRecord(TDB_KV_FLAG_DELTA_SEQ, <<108>>, << >>, {}, BitsOfNat(1), {})>>)
        \o <<0, 9>>}

ScanTails == {"none", "zero", "huge"}

\* How the file under scan was laid out.
Layout(bad, tail, cut) ==
    [fn |-> "FileBytes", done |-> TRUE, bad |-> bad, tail |-> tail, cut |-> cut]

InitScan ==
    \E c \in PositionalCmds : \E bs \in SeqsUpTo(ScanPayloads, MaxScanBlocks) :
    \E bad \in 0..Len(bs) : \E tail \in ScanTails :
        \/ \E cut \in 0..MaxScanCut :
           \E la \in IF c = "sstable-dump-full" THEN {NoArg, TwoArg} ELSE {NoArg} :
             Start(c, bs, TRUE, FileBytes(bs, bad, tail, cut), NoVlogFile,
                   [CalmEnv EXCEPT !.limit_arg = la], Layout(bad, tail, cut))
        \/ \E k \in 0..1 :
             Start(c, bs, TRUE, FileBytes(bs, bad, tail, 0), NoVlogFile,
                   [CalmEnv EXCEPT !.oomAt = k], Layout(bad, tail, 0))

NextScan ==
    \/ Begin
    \/ DumpFullStep
    \/ SstableChecksumStep

SpecScan == InitScan /\ [][NextScan]_vars
(***************************************************************************)
(* C11.  A checksum mismatch never stops a positional scan.                *)
(***************************************************************************)
\* The keys of the well-formed records of a payload of ScanPayloads, as laid out.
ScanKeys(payload) == IF payload = WalPut THEN <<<<107>>>> ELSE <<<<107>>, <<108>>>>

HeaderReadAt(p) == \E i \in 1..Len(st.preads) : st.preads[i].pos = p /\ st.preads[i].n = 8

\* The payload of block k was read whole.
FullyRead(k) ==
    \E i \in 1..Len(st.preads) :
        st.preads[i] = PreadCall(BlockPos(blocks, k) + 8, Len(blocks[k]), Len(blocks[k]))

Mismatching(k) == call.bad = k

\* The entries emitted from blocks numbered below b.
EmittedBelow(b) == Cardinality({i \in 1..Len(out) : out[i].blk < b})

EmittedFrom(b) == SelectSeq(out, LAMBDA e : e.blk = b)

\* The loop test lets the scan go on after block k.
GoesOn(k) == cmd = "sstable-checksum" \/ EmittedBelow(k) < limit

\* The header reads of a scan are its odd preads; they fall on the offsets that
\* the payload lengths alone give.
VisitedByLength ==
    \A i \in 1..Len(st.preads) :
        i % 2 = 1 => st.preads[i].pos = BlockPos(blocks, (i + 1) \div 2)

\* The records of block k, mismatching or not, are emitted up to the limit.
EmittedWhole(k) ==
    LET mine == EmittedFrom(k - 1)
        want == Min(Len(ScanKeys(blocks[k])), limit - EmittedBelow(k - 1))
    IN /\ Len(mine) = want
       /\ \A i \in 1..want : mine[i].key = ScanKeys(blocks[k])[i]

\* C11: in sstable-checksum and sstable-dump-full, after a block whose stored
\* checksum differs from the digest of its payload the next block header is still
\* read (the header offsets visited are those the payload lengths give, whatever
\* the stored checksums are), and in sstable-dump-full the records of the
\* mismatching block are still decoded and emitted.
C11_MismatchNeverStops ==
    (cmd \in PositionalCmds /\ pc = "done" /\ call.fn = "FileBytes") =>
        /\ VisitedByLength
        /\ \A k \in 1..Len(blocks) :
             (Mismatching(k) /\ FullyRead(k)) =>
                /\ (BlockPos(blocks, k + 1) < Len(file) /\ GoesOn(k)) =>
                      HeaderReadAt(BlockPos(blocks, k + 1))
                /\ cmd = "sstable-dump-full" => EmittedWhole(k)

\* A full dump whose first block mismatches and whose second block is emitted too.
C11_Witness ==
    /\ cmd = "sstable-dump-full" /\ pc = "done" /\ call.fn = "FileBytes"
    /\ Len(blocks) >= 2 /\ Mismatching(1) /\ FullyRead(1) /\ FullyRead(2)
    /\ EmittedFrom(0) # << >> /\ EmittedFrom(1) # << >>
    /\ \A i \in 1..Len(out) : out[i].checksum_err <=> out[i].blk = 0
(***************************************************************************)
(* C12.  A block is reported as a match exactly when the digest of its     *)
(* payload equals the stored checksum.                                     *)
(***************************************************************************)
\* The stored checksum of block k, read from the bytes of the file.
StoredAt(k) == LE32(SubSeq(file, BlockPos(blocks, k) + 5, BlockPos(blocks, k) + 8))

Matches(k) == StoredAt(k) = Digest(blocks[k], 0)

ReadWhole == {k \in 1..Len(blocks) : FullyRead(k)}

\* The CHECKSUM MISMATCH line of block k: its number, offset, size and both values.
MismatchLine(k) ==
    [blk |-> k - 1, pos |-> BlockPos(blocks, k), kind |-> "CHECKSUM MISMATCH",
     size |-> BitsOfNat(Len(blocks[k])), stored |-> BitsOfNat(StoredAt(k)),
     computed |-> BitsOfNat(Digest(blocks[k], 0))]

Printed(line) == \E i \in 1..Len(out) : out[i] = line

\* C12: sstable-checksum counts a fully read block valid iff the recomputed digest
\* equals the stored checksum and reports it as a mismatch otherwise; in
\* sstable-dump-full an emitted record carries CHECKSUM_ERR iff its block mismatched.
C12_MatchIffEqual ==
    (cmd \in PositionalCmds /\ pc \in {"run", "done"} /\ call.fn = "FileBytes") =>
        IF cmd = "sstable-checksum"
        THEN /\ st.valid_blocks = Cardinality({k \in ReadWhole : Matches(k)})
             /\ \A k \in ReadWhole : Printed(MismatchLine(k)) <=> ~Matches(k)
             /\ Cardinality({i \in 1..Len(out) : out[i].kind = "CHECKSUM MISMATCH"})
                  = Cardinality({k \in ReadWhole : ~Matches(k)})
        ELSE /\ \A i \in 1..Len(out) : out[i].checksum_err <=> ~Matches(out[i].blk + 1)
             /\ st.checksum_errors = Cardinality({k \in ReadWhole : ~Matches(k)})

\* A checksum scan that found two matching blocks and one mismatching block.
C12_Witness ==
    /\ cmd = "sstable-checksum" /\ pc = "done" /\ call.fn = "FileBytes"
    /\ Len(blocks) = 3 /\ st.valid_blocks = 2 /\ st.invalid_blocks = 1
    /\ Printed(MismatchLine(2)) /\ ~Matches(2) /\ Matches(1) /\ Matches(3)
(***************************************************************************)
(* C13.  A block header declaring a payload length of 0 or above 100 MiB.  *)
(***************************************************************************)
\* The scan left its loop on the size test of the header at st.pos.
StoppedOnSize == cmd \in PositionalCmds /\ pc = "done" /\ st.exit = "size"

\* The last pread of the scan is the header read at st.pos: no payload was read.
NoPayloadRead ==
    /\ st.preads # << >>
    /\ st.preads[Len(st.preads)] = PreadCall(st.pos, 8, 8)

\* C13: a header declaring a payload length of 0 or above 100 MiB stops the scan at
\* that block without reading any payload, and the command returns failure (and
\* sstable-checksum prints the INVALID SIZE line of the block).
C13_SizeViolationIsFailure ==
    StoppedOnSize =>
        /\ NoPayloadRead
        /\ cmd = "sstable-checksum" =>
              \E i \in 1..Len(out) : /\ out[i].kind = "INVALID SIZE"
                                      /\ out[i].pos = st.pos /\ out[i].blk = st.block_num
        /\ st.ret = -1

\* A full dump of a file whose only block header declares no payload: nothing is
\* reported and the command returns success.
C13_SilentSizeStop ==
    /\ StoppedOnSize /\ cmd = "sstable-dump-full" /\ call.fn = "FileBytes"
    /\ blocks = << >> /\ call.tail = "zero" /\ call.cut = 0
    /\ NoPayloadRead /\ out = << >> /\ st.ret = 0
(***************************************************************************)
(* C14.  A file that ends inside a block.                                  *)
(***************************************************************************)
\* The scan left its loop on a short read of the header or of the payload at st.pos.
StoppedOnShortRead ==
    /\ cmd \in PositionalCmds /\ pc = "done"
    /\ st.exit \in {"header", "payload"}
    /\ st.pos < Len(file)
    /\ st.preads[Len(st.preads)].got < st.preads[Len(st.preads)].n

\* C14: when the file ends inside a block (the header or the payload is read
\* short), the command does not finish with success, and sstable-checksum does not
\* print the status OK.
C14_TruncationIsFailure ==
    StoppedOnShortRead =>
        /\ st.ret = -1
        /\ cmd = "sstable-checksum" => st.status = "CORRUPTED"

\* A checksum scan of one whole block followed by four bytes of a header: one
\* valid block, none invalid, status OK and success.
C14_ShortHeaderPassesAsOk ==
    /\ StoppedOnShortRead /\ cmd = "sstable-checksum" /\ st.exit = "header"
    /\ call.fn = "FileBytes" /\ call.tail = "zero" /\ call.cut = 4 /\ Len(blocks) = 1
    /\ st.valid_blocks = 1 /\ st.invalid_blocks = 0
    /\ st.status = "OK" /\ st.ret = 0
(***************************************************************************)
(* C15.  The offsets of a positional scan and the numbering of its blocks. *)
(***************************************************************************)
\* The payload length declared by the header at file offset p.
DeclaredAt(p) == LE32(SubSeq(file, p + 1, p + 4))

\* The header reads are the odd preads and the payload reads the even ones.
HeaderReads == {i \in 1..Len(st.preads) : i % 2 = 1}

\* The header pread i was followed by a whole payload: the block was processed.
Processed(i) == i + 1 <= Len(st.preads) /\ st.preads[i + 1].got = st.preads[i + 1].n

\* The bytes a pread asked for.
Asked(r) == r.pos..(r.pos + r.n - 1)

\* The trailer of the block whose header was read by pread i.
TrailerOf(i) ==
    LET p == st.preads[i].pos + 8 + DeclaredAt(st.preads[i].pos)
    IN p..(p + 7)

ScanOffsets ==
    /\ st.preads # << >> => st.preads[1] = PreadCall(8, 8, Min(8, Len(file) - 8))
    /\ \A i \in HeaderReads :
         /\ st.preads[i].n = 8
         /\ i + 1 <= Len(st.preads) =>
               /\ st.preads[i + 1].pos = st.preads[i].pos + 8
               /\ st.preads[i + 1].n = DeclaredAt(st.preads[i].pos)
         /\ i + 2 <= Len(st.preads) =>
               st.preads[i + 2].pos
                   = st.preads[i].pos + 8 + DeclaredAt(st.preads[i].pos) + 8

TrailersUntouched ==
    \A i \in HeaderReads : Processed(i) =>
        \A j \in 1..Len(st.preads) : Asked(st.preads[j]) \cap TrailerOf(i) = {}

\* Block k in scan order (from 0) is the one whose header was read by pread 2k + 1.
ScanNumbering ==
    /\ st.block_num = Cardinality({i \in HeaderReads : Processed(i)})
    /\ IF cmd = "sstable-checksum"
       THEN \A i \in 1..Len(out) : out[i].pos = st.preads[2 * out[i].blk + 1].pos
       ELSE \A i \in 1..Len(out) :
              /\ Processed(2 * out[i].blk + 1)
              /\ \E j \in 1..Len(ScanKeys(blocks[out[i].blk + 1])) :
                    out[i].key = ScanKeys(blocks[out[i].blk + 1])[j]

\* C15: the first block header is read at file offset 8; after a block with payload
\* length n at offset p the next header is read at p + 8 + n + 8; the 8 trailer
\* bytes are never read; blocks are numbered in scan order from 0.
C15_ScanAdvance ==
    (cmd \in PositionalCmds /\ pc \in {"run", "done"} /\ call.fn = "FileBytes") =>
        ScanOffsets /\ TrailersUntouched /\ ScanNumbering

\* A checksum scan that processed three blocks, the second reported with number 1.
C15_Witness ==
    /\ cmd = "sstable-checksum" /\ pc = "done" /\ call.fn = "FileBytes"
    /\ Len(blocks) = 3 /\ st.block_num = 3 /\ Len(st.preads) = 6
    /\ st.preads[5].pos = 8 + (8 + Len(blocks[1]) + 8) + (8 + Len(blocks[2]) + 8)
    /\ Len(blocks[1]) # Len(blocks[2])
    /\ out # << >> /\ out[1].blk = 1
(***************************************************************************)
(* The commands as a caller runs them: every inspection command on small   *)
(* containers, with each failure of the prologue, with and without a       *)
(* limit argument, on files below and above the large-file threshold.      *)
(***************************************************************************)
MaxCmdBlocks == 3   \* most blocks in a container given to a command

InspectCmds == {"sstable-info", "wal-info", "bloom-stats"}

\* strtol results that do not fit an int: 2^32 + 1, 2^31 and LONG_MAX.
WideArgs ==
    {[given |-> TRUE, parsed |-> 1, high |-> {32}],
     [given |-> TRUE, parsed |-> 0, high |-> {31}],
     [given |-> TRUE, parsed |-> 2147483647, high |-> 31..62]}

\* A negative number.
NegArg == [given |-> TRUE, parsed |-> 2147483647, high |-> 31..63]

LimitArgs == {NoArg, ZeroArg, OneArg, TwoArg, NegArg} \cup WideArgs

\* Payloads of one record, of two records followed by bytes that do not decode,
\* and the empty block.
CmdPayloads == ScanPayloads \cup {<< >>}

CmdContainers == SeqsUpTo(CmdPayloads, MaxCmdBlocks)

\* The prologue failures, one at a time.
FailingEnvs ==
    {[CalmEnv EXCEPT !.openFails = TRUE], [CalmEnv EXCEPT !.cursorFails = TRUE],
     [CalmEnv EXCEPT !.statFails = TRUE], [CalmEnv EXCEPT !.oomAt = 0]}

\* The limit argument, the size of the file and, for sstable-dump-full, an
\* argv[2] that names no regular file.
ArgEnvs(c) ==
    {[CalmEnv EXCEPT !.limit_arg = la, !.large = big, !.vlog_missing = miss] :
        la \in LimitArgs, big \in BOOLEAN,
        miss \in IF c = "sstable-dump-full" THEN BOOLEAN ELSE {FALSE}}

\* The bytes missing from the end of the files scanned with a failing fstat:
\* none, half the last trailer, the whole trailer, and part of the payload.
StatCuts == {0, 4, BLOCK_TRAILER_SIZE, BLOCK_TRAILER_SIZE + 4}

InitCmd ==
    \/ \E c \in CursorCmds \cup PositionalCmds \cup InspectCmds :
       \E bs \in CmdContainers : \E eof \in BOOLEAN :
       \E e \in FailingEnvs \cup ArgEnvs(c) :
         Start(c, bs, eof, FileBytes(bs, 0, "none", 0), NoVlogFile, e, Layout(0, "none", 0))
    \/ \E bs \in VlogTables : \E vl \in VlogFiles : \E oom \in BOOLEAN :
         Start("sstable-dump-full", bs, TRUE, FileBytes(bs, 0, "none", 0), vl,
               [CalmEnv EXCEPT !.vlogOom = oom], Layout(0, "none", 0))
    \/ InitScan
    \/ \E bs \in SeqsUpTo(ScanPayloads, MaxScanBlocks) : \E tail \in ScanTails :
       \E cut \in StatCuts :
         Start("sstable-dump-full", bs, TRUE, FileBytes(bs, 0, tail, cut), NoVlogFile,
               [CalmEnv EXCEPT !.statFails = TRUE], Layout(0, tail, cut))
    \/ \E c \in ListCmds :
         Start(c, << >>, TRUE, FileBytes(<< >>, 0, "none", 0), NoVlogFile, CalmEnv,
               Layout(0, "none", 0))

NextCmd ==
    \/ Begin
    \/ SstableDumpStep
    \/ SstableKeysStep
    \/ SstableStatsStep
    \/ WalDumpStep
    \/ WalVerifyStep
    \/ DumpFullStep
    \/ SstableChecksumStep
    \/ SstableInfoStep
    \/ WalInfoStep
    \/ BloomStatsStep
    \/ SstableListStep
    \/ WalListStep

SpecCmd == InitCmd /\ [][NextCmd]_vars
(***************************************************************************)
(* C16.  The number of records emitted and the effective limit.            *)
(***************************************************************************)
LimitCmds == {"sstable-dump", "sstable-dump-full", "sstable-keys", "wal-dump"}

\* The caller gave a positive limit.
CallerPositive == env.limit_arg.given /\ LongPositive(env.limit_arg)

\* The limit in force is the caller's positive limit, or 1000 when none was given.
LimitIsCallers ==
    IF CallerPositive
    THEN env.limit_arg.high = {} /\ limit = env.limit_arg.parsed
    ELSE limit = ADMINTOOL_DEFAULT_DUMP_LIMIT

\* C16: in sstable-dump, sstable-dump-full, sstable-keys and wal-dump the number of
\* records emitted never exceeds the effective limit, which is the caller's
\* positive limit when one is given and 1000 otherwise; a file above 100 MiB
\* produces at most a warning.
C16_LimitHonoured ==
    cmd \in LimitCmds =>
        /\ st.warned => env.large
        /\ LimitIsCallers
        /\ Len(out) <= limit

\* A full dump called with a value-log path that names no regular file and the
\* limit 1: the limit in force is 1000 and two records are emitted.
C16_LimitArgumentIgnored ==
    /\ cmd = "sstable-dump-full" /\ pc = "done"
    /\ env.vlog_missing /\ env.limit_arg = OneArg
    /\ limit = ADMINTOOL_DEFAULT_DUMP_LIMIT /\ Len(out) = 2
(***************************************************************************)
(* C17.  A decode failure ends the decoding of its block only.             *)
(***************************************************************************)
\* The keys of the well-formed records of a payload of CmdPayloads.
CmdKeys(payload) == IF payload = << >> THEN << >> ELSE ScanKeys(payload)

\* The payload ends in bytes that do not decode.
EndsInFailure(payload) == payload # << >> /\ payload # WalPut

\* The keys of all blocks in walk order, and the block (from 0) of each.
AllKeys(bs) == Concat([k \in 1..Len(bs) |-> CmdKeys(bs[k])])

AllBlockNums(bs) == Concat([k \in 1..Len(bs) |-> [i \in 1..Len(CmdKeys(bs[k])) |-> k - 1]])

\* The walk went through the whole container without reaching its limit.
WalkedThrough ==
    /\ pc = "done" /\ limit = ADMINTOOL_DEFAULT_DUMP_LIMIT
    /\ \A k \in 1..Len(blocks) : blocks[k] \in CmdPayloads
    /\ call = Layout(0, "none", 0)
    /\ \/ cmd \in {"sstable-dump", "sstable-keys", "sstable-stats"}
             /\ st.exit \in {"end", "noblock"}
       \/ cmd = "sstable-dump-full" /\ st.exit = "end" /\ st.st_size = Len(file)
             /\ \A k \in 1..Len(blocks) : blocks[k] # << >>

\* C17: in the table walkers a decode failure inside block k ends the decoding of
\* block k only: the records decoded before it stay emitted or counted, nothing
\* more of block k is emitted, and the records of block k + 1 follow as usual.
C17_FailureEndsBlockOnly ==
    (cmd \in TableWalkers /\ WalkedThrough) =>
        IF cmd = "sstable-stats" THEN st.total_entries = Len(AllKeys(blocks))
        ELSE /\ [i \in 1..Len(out) |-> out[i].key] = AllKeys(blocks)
             /\ cmd # "sstable-keys" =>
                   [i \in 1..Len(out) |-> out[i].blk] = AllBlockNums(blocks)

\* A dump of a block whose third record does not decode, followed by a block of
\* one record: two entries of block 0 and one of block 1.
C17_Witness ==
    /\ cmd = "sstable-dump" /\ WalkedThrough
    /\ Len(blocks) = 2 /\ EndsInFailure(blocks[1]) /\ blocks[2] = WalPut
    /\ [i \in 1..Len(out) |-> out[i].blk] = <<0, 0, 1>>
(***************************************************************************)
(* C18.  A block read that yields no block.                                *)
(***************************************************************************)
\* Every block of the container holds one well-formed entry or is empty.
SoundBlocks == \A k \in 1..Len(blocks) : blocks[k] \in {WalPut, << >>}

\* The walk has ended on a block read that yielded no block.
EndedOnMissingBlock == cmd \in CursorCmds /\ pc = "done" /\ st.exit = "noblock"

\* C18: in every cursor-based walk, wal-verify included, a block read that yields
\* no block ends the walk and is not an error: it is not counted as a corrupted
\* entry and does not by itself make the command fail.
C18_MissingBlockIsNoError ==
    (EndedOnMissingBlock /\ SoundBlocks) =>
        /\ st.ret = 0
        /\ cmd = "wal-verify" => st.corrupted_entries = 0 /\ st.status = "OK"

\* wal-verify on a log of one good entry whose next read yields no block: one
\* valid entry, one corrupted entry, CORRUPTED, failure.
C18_MissingBlockCounted ==
    /\ cmd = "wal-verify" /\ EndedOnMissingBlock /\ blocks = <<WalPut>>
    /\ st.valid_entries = 1 /\ st.corrupted_entries = 1
    /\ st.status = "CORRUPTED" /\ st.ret = -1
(***************************************************************************)
(* C19.  Every exit path gives back what the command acquired.             *)
(***************************************************************************)
\* How many times the event `e' stands in the ledger `evs'.
Times(evs, e) == Cardinality({i \in 1..Len(evs) : evs[i] = e})

\* Each acquiring call and the call that gives its resource back.
Pairings ==
    {<<"read", "release">>, <<"malloc", "free">>, <<"open", "close">>,
     <<"bm_open", "bm_close">>, <<"cursor_init", "cursor_free">>,
     <<"bloom_filter_deserialize", "bloom_filter_free">>, <<"opendir", "closedir">>}

\* Nothing is given back before it is acquired, and at the end of `evs' nothing
\* is still held.
Balanced(evs) ==
    \A p \in Pairings :
        /\ Times(evs, p[1]) = Times(evs, p[2])
        /\ \A n \in 1..Len(evs) :
              Times(SubSeq(evs, 1, n), p[2]) <= Times(SubSeq(evs, 1, n), p[1])

\* C19: for every inspection command and every exit path, when the command
\* returns the block releases equal the successful block reads, every heap
\* buffer allocated has been freed, and every descriptor, cursor and
\* block-manager handle opened has been closed.
C19_ExitsBalanced == pc = "done" => Balanced(st.ev)

\* sstable-dump-full leaves on a short payload read after a block with a
\* record: the payload buffer of both blocks and the descriptor are given back.
C19_Witness ==
    /\ cmd = "sstable-dump-full" /\ pc = "done" /\ st.exit = "payload"
    /\ Len(out) >= 1
    /\ Times(st.ev, "malloc") >= 2 /\ Times(st.ev, "close") = 1
(***************************************************************************)
(* C20.  The status line, the counters and the return value.               *)
(***************************************************************************)
StatusCmds == {"sstable-checksum", "wal-verify"}

\* The count of invalid blocks or of corrupted entries.
FaultCount == IF cmd = "sstable-checksum" THEN st.invalid_blocks ELSE st.corrupted_entries

\* The status and the return value follow the count.
StatusFollowsCount ==
    /\ st.status = "OK" <=> FaultCount = 0
    /\ st.status = "CORRUPTED" <=> FaultCount # 0
    /\ st.ret = -1 <=> st.status = "CORRUPTED"
    /\ st.ret = 0 <=> st.status = "OK"

\* The command returned from its prologue: the file did not open, fstat failed or
\* the cursor could not be created.
PrologueFailure == st.exit \in {"open", "stat", "cursor"}

\* C20: for sstable-checksum and wal-verify the final status line and the return
\* value always agree with the counters: OK exactly when the invalid/corrupted
\* count is zero and CORRUPTED otherwise, failure (-1) exactly when the status
\* is CORRUPTED and success (0) exactly when it is OK.
C20_StatusAgrees == (cmd \in StatusCmds /\ pc = "done") => StatusFollowsCount

\* C20 as the code has it: the agreement holds whenever the command gets past its
\* prologue; a prologue failure returns -1 with no OK or CORRUPTED status.
C20_ReportAgrees ==
    (cmd \in StatusCmds /\ pc = "done") =>
        IF PrologueFailure
        THEN st.ret = -1 /\ st.status \notin {"OK", "CORRUPTED"}
        ELSE StatusFollowsCount

\* sstable-checksum after one valid and one invalid block: CORRUPTED, failure.
C20_Witness ==
    /\ cmd = "sstable-checksum" /\ pc = "done" /\ ~PrologueFailure
    /\ st.valid_blocks = 1 /\ st.invalid_blocks = 1
    /\ st.status = "CORRUPTED" /\ st.ret = -1
(***************************************************************************)
(* C21.  bloom-stats: the filter block, disabled and undecodable filters.  *)
(***************************************************************************)
BloomDone == cmd = "bloom-stats" /\ pc = "done"

\* The block that was read and whatever else was taken have been given back.
BloomReleased == Balanced(st.ev) /\ Times(st.ev, "read") = 1 /\ Times(st.ev, "bm_close") = 1

\* C21: bloom-stats reads the second-from-last block and fails on a file of fewer
\* than 3 blocks; an empty filter block is reported as disabled with success, a
\* deserialization failure with another message and another result; in both
\* cases the command returns and the block, cursor and block manager are released.
C21_BloomBlockHandling ==
    BloomDone =>
        /\ (~env.openFails /\ Len(blocks) < 3) => st.exit = "few" /\ st.ret = -1
        /\ Times(st.ev, "read") = 1 => st.at = Len(blocks) - 1 /\ st.at >= 2
        /\ st.exit = "empty" =>
              /\ blocks[st.at] = << >>
              /\ st.msg = "Bloom Filter: disabled (empty block)" /\ st.ret = 0
              /\ BloomReleased
        /\ st.exit = "deserialize" =>
              /\ st.msg # "Bloom Filter: disabled (empty block)" /\ st.ret # 0
              /\ BloomReleased

\* A table of three blocks whose filter block does not deserialize.
C21_Witness ==
    /\ BloomDone /\ st.exit = "deserialize" /\ Len(blocks) = 3 /\ st.at = 2
    /\ st.ret = -1 /\ BloomReleased
(***************************************************************************)
(* C22.  bloom-stats: bits set, fill ratio, estimated FPR and the warning. *)
(***************************************************************************)
RECURSIVE OnesIn(_, _)
\* The 1 bits of the first n words of a bit array.
OnesIn(bitset, n) == IF n = 0 THEN 0 ELSE Cardinality(bitset[n]) + OnesIn(bitset, n - 1)

BloomReported == BloomDone /\ st.exit = "ok"

\* The fraction r is the quotient a / b.
IsQuotient(r, a, b) == r[1] * b = a * r[2]

\* C22: bits_set is the number of 1 bits over all size_in_words words, the fill
\* ratio is bits_set / m, the estimated FPR is fill_ratio ^ h, and the high-fill
\* warning is given exactly when 2 * bits_set > m: m = 1000 with 500 bits set and
\* h = 4 gives 50%, FPR 0.0625 and no warning; 501 bits set gives the warning.
C22_BloomStatistics ==
    BloomReported =>
        /\ st.bits_set = OnesIn(st.bf.bitset, st.bf.size_in_words)
        /\ IsQuotient(st.fill_ratio, st.bits_set, st.bf.m)
        /\ st.estimated_fpr = <<st.fill_ratio[1] ^ st.bf.h, st.fill_ratio[2] ^ st.bf.h>>
        /\ st.high_fill <=> 2 * st.bits_set > st.bf.m
        /\ (st.bf.m = 1000 /\ st.bits_set = 500 /\ st.bf.h = 4) =>
              /\ IsQuotient(st.fill_ratio, 50, 100)
              /\ IsQuotient(st.estimated_fpr, 625, 10000)
              /\ ~st.high_fill
        /\ (st.bf.m = 1000 /\ st.bits_set = 501) => st.high_fill

\* The filter of 1000 bits, half of them set, with 4 hash functions.
C22_Witness ==
    /\ BloomReported /\ st.bf.m = 1000 /\ st.bf.h = 4 /\ st.bits_set = 500
    /\ st.estimated_fpr = <<1, 16>> /\ ~st.high_fill
(***************************************************************************)
(* C23.  sstable-stats: the counters and the records that were counted.    *)
(***************************************************************************)
StatsDone == cmd = "sstable-stats" /\ pc = "done"

\* The attempts on the block that decoded a whole record.
CountedAt == {i \in 1..Len(log.attempts) : log.attempts[i].ok}

\* How many of the counted records carry the flag f.
FlagCount(f) == Cardinality({i \in CountedAt : HasFlag(log.attempts[i].rec.flags, f)})

\* The least and the greatest word of a set of words; 0 for the empty set.
LeastWord(S) == IF S = {} THEN {} ELSE CHOOSE m \in S : \A x \in S : ~WordLt(x, m)

GreatestWord(S) == IF S = {} THEN {} ELSE CHOOSE m \in S : \A x \in S : ~WordLt(m, x)

CountedSeqs == {log.attempts[i].rec.seq : i \in CountedAt}

CountedKeySizes == {log.attempts[i].rec.key_size : i \in CountedAt}

CountedValueSizes == {log.attempts[i].rec.value_size : i \in CountedAt}

\* C23: after the walk of sstable-stats the total is the number of records fully
\* decoded; the tombstone, TTL and value-log counts are the numbers of those
\* records with the flag, so none exceeds the total; min/max sequence and key
\* and value sizes are taken over those records, a minimum over none being 0.
C23_CountsOverCounted ==
    (StatsDone /\ Len(blocks) = 1) =>
        /\ st.total_entries = Cardinality(CountedAt)
        /\ st.tombstone_count = FlagCount(TDB_KV_FLAG_TOMBSTONE)
        /\ st.ttl_count = FlagCount(TDB_KV_FLAG_HAS_TTL)
        /\ st.vlog_count = FlagCount(TDB_KV_FLAG_HAS_VLOG)
        /\ st.ttl_count <= st.total_entries /\ st.vlog_count <= st.total_entries
        /\ Reported(st.min_seq) = LeastWord(CountedSeqs)
        /\ st.max_seq = GreatestWord(CountedSeqs)
        /\ Reported(st.min_key_size) = LeastWord(CountedKeySizes)
        /\ st.max_key_size = GreatestWord(CountedKeySizes)
        /\ Reported(st.min_value_size) = LeastWord(CountedValueSizes)
        /\ st.max_value_size = GreatestWord(CountedValueSizes)

\* A record with a TTL whose key is cut off: one TTL entry among no entries.
C23_TtlCountedWithoutRecord ==
    /\ StatsDone /\ Len(blocks) = 1
    /\ st.total_entries = 0 /\ st.ttl_count = 1 /\ CountedAt = {}
(***************************************************************************)
(* C24.  Termination of the walkers and of the positional scanners.        *)
(***************************************************************************)
MaxLiveBlocks == 2

\* A record of one byte of key and two of value, two records of 4 bytes each,
\* and an empty block.
LivePayloads == {WalPut, <<0, 0, 0, 1, 0, 0, 0, 2>>, << >>}

\* Whole and damaged files under every walker and scanner, with and without a
\* limit; eof tells whether the cursor advance fails after the last block.
InitLive ==
    \E c \in CursorCmds \cup PositionalCmds :
    \E bs \in SeqsUpTo(LivePayloads, MaxLiveBlocks) : \E eof \in BOOLEAN :
    \E la \in {NoArg, OneArg} : \E d \in {<<"none", 0>>, <<"zero", 0>>, <<"none", 5>>} :
        Start(c, bs, eof, FileBytes(bs, 0, d[1], d[2]), NoVlogFile,
              [CalmEnv EXCEPT !.limit_arg = la], Layout(0, d[1], d[2]))

NextLive ==
    \/ Begin
    \/ SstableDumpStep
    \/ SstableKeysStep
    \/ SstableStatsStep
    \/ WalDumpStep
    \/ WalVerifyStep
    \/ DumpFullStep
    \/ SstableChecksumStep

\* A step of NextLive can be taken exactly while the command has not returned.
Running == pc # "done"

\* The commands run to completion.  This is weak fairness of NextLive,
\* WF_vars(NextLive), with ENABLED <<NextLive>>_vars written out as Running.
SpecLive == InitLive /\ [][NextLive]_vars /\ ([]<>(~Running) \/ []<><<NextLive>>_vars)

\* An outer iteration that does not stop moves on: a scanner by at least 17
\* bytes from an offset inside the file, a walker to the next block.
OuterProgress ==
    (pc = "run" /\ pc' = "run") =>
        IF cmd \in PositionalCmds
        THEN st.pos < st.st_size /\ st'.pos >= st.pos + 17
        ELSE st.cur <= Len(blocks) /\ st'.cur = st.cur + 1

\* The budget with which the i-th decode attempt on the block began.
BudgetBefore(i) == IF i = 1 THEN log.L ELSE log.attempts[i - 1].c.remaining

\* An inner iteration that does not stop consumes at least 4 bytes.
InnerProgress ==
    cmd \in TableWalkers =>
        \A i \in 1..Len(log.attempts) :
            log.attempts[i].ok => BudgetBefore(i) - log.attempts[i].c.remaining >= 4

\* C24: every walker and positional scanner terminates on a finite input: each
\* outer iteration stops or moves to a strictly later block or offset (by at
\* least 17 bytes, below the file size), and each inner decode iteration stops
\* or consumes at least 4 bytes of the block's budget.
C24_Terminates == <>(pc = "done") /\ [][OuterProgress]_vars /\ []InnerProgress

\* A scan of two blocks ended, the second block having given two records of
\* 4 bytes each.
C24_Witness ==
    /\ cmd = "sstable-dump-full" /\ pc = "done" /\ st.block_num = 2
    /\ blocks[2] = <<0, 0, 0, 1, 0, 0, 0, 2>> /\ Len(log.attempts) = 2
    /\ log.attempts[2].ok /\ log.attempts[2].c.remaining = 0
(***************************************************************************)
(* C25.  wal-verify: the sequence range and the blocks classified valid.   *)
(***************************************************************************)
\* wal-verify has walked the whole log and the cursor advance has failed.
VerifiedToEnd == cmd = "wal-verify" /\ pc = "done" /\ st.exit = "end"

\* The blocks read that hold bytes, and those of them whose entry is valid.
EntryBlocks == {k \in 1..st.reads : blocks[k] # << >>}

ValidEntryBlocks ==
    {k \in EntryBlocks : WalVerifyDecode(blocks[k], 0, Len(blocks[k])).ok}

ValidSeqs == {WalVerifyDecode(blocks[k], 0, Len(blocks[k])).rec.seq : k \in ValidEntryBlocks}

\* C25: the sequence range wal-verify reports is the minimum and maximum over
\* exactly the blocks classified valid; a corrupted block never changes the
\* running min or max; zero-length blocks are counted neither way and change
\* neither the range nor the last valid position.
C25_RangeOverValidBlocks ==
    VerifiedToEnd =>
        /\ st.valid_entries = Cardinality(ValidEntryBlocks)
        /\ st.corrupted_entries = Cardinality(EntryBlocks \ ValidEntryBlocks)
        /\ st.max_seq = GreatestWord(ValidSeqs)
        /\ st.valid_entries > 0 =>
              /\ Reported(st.min_seq) = LeastWord(ValidSeqs)
              /\ st.last_valid_pos = BlockPos(blocks, MaxOf(ValidEntryBlocks))
        /\ st.valid_entries = 0 => st.min_seq = UINT64_MAX /\ st.last_valid_pos = 0

\* One valid entry with sequence number 2^64 - 1: the range is reported from 0.
C25_MinReportedAsZero ==
    /\ VerifiedToEnd /\ st.valid_entries = 1 /\ ValidSeqs = {UINT64_MAX}
    /\ Reported(st.min_seq) = {} /\ st.max_seq = UINT64_MAX
(***************************************************************************)
(* C26.  sstable-dump-full: the value bytes of a resolved value-log entry. *)
(***************************************************************************)
\* The entries of the dump whose value-log payload was resolved.
ResolvedAt == {i \in 1..Len(out) : out[i].vlog_status > 0}

\* C26: in sstable-dump-full, when a value-log payload is resolved, every value
\* byte rendered lies inside the payload: the number of bytes printed as the
\* value never exceeds the length read_vlog_value returned, whatever the
\* record's declared value size and the value-log block's declared length.
C26_ValueInsidePayload ==
    cmd = "sstable-dump-full" =>
        \A i \in ResolvedAt :
            /\ out[i].text.avail = out[i].vlog_status
            /\ out[i].text.printed <= out[i].vlog_status

\* A record that declares 5 value bytes and a value-log block of 3: printf is
\* given the 3-byte buffer with a precision of 5.
C26_PrintedPastPayload ==
    /\ cmd = "sstable-dump-full" /\ pc = "done" /\ Len(out) = 1
    /\ out[1].vlog_status = 3 /\ out[1].text.kind = "bytes"
    /\ out[1].text.avail = 3 /\ out[1].text.printed = 5
(***************************************************************************)
(* C27.  sstable-checksum: the three counts of the final report.           *)
(***************************************************************************)
\* sstable-checksum has printed its final report.
ChecksumReported == cmd = "sstable-checksum" /\ pc = "done" /\ ~PrologueFailure

\* C27: in the final report of sstable-checksum the total block count is the
\* valid count plus the invalid count, for every input file and every way the
\* scan can end (end of file, invalid size, short read, out of memory).
C27_TotalIsValidPlusInvalid ==
    ChecksumReported => st.block_num = st.valid_blocks + st.invalid_blocks

\* One valid block followed by a header of size 0: Total Blocks 1, Valid 1,
\* Invalid 1.
C27_InvalidBeyondTotal ==
    /\ ChecksumReported /\ st.exit = "size"
    /\ st.block_num = 1 /\ st.valid_blocks = 1 /\ st.invalid_blocks = 1
(***************************************************************************)
(* C28.  sstable-dump-full: CHECKSUM_ERR annotations and the return value. *)
(***************************************************************************)
\* The entries annotated CHECKSUM_ERR: after the block number, or inside [VLOG:...].
AnnotatedAt ==
    {i \in 1..Len(out) : out[i].checksum_err \/ out[i].marker = "CHECKSUM_ERR"}

\* C28: sstable-dump-full returns its failure indicator whenever at least one
\* emitted record was annotated CHECKSUM_ERR, whether the mismatch was in the
\* table block of the record or in the value-log payload it references.
C28_AnnotationMeansFailure ==
    (cmd = "sstable-dump-full" /\ pc = "done" /\ AnnotatedAt # {}) => st.ret = -1

\* A record of a sound block whose value-log payload has a wrong checksum: it
\* is annotated and the command returns 0.
C28_VlogMismatchReturnsSuccess ==
    /\ cmd = "sstable-dump-full" /\ pc = "done" /\ Len(out) = 1
    /\ out[1].marker = "CHECKSUM_ERR" /\ out[1].vlog_status = -2
    /\ ~out[1].checksum_err /\ st.checksum_errors = 0 /\ st.ret = 0
(***************************************************************************)
(* C29.  The four copies of the record decoder.                            *)
(***************************************************************************)
\* What the decoder of sstable-dump-full, which skips no block, decodes from
\* block k with no limit (the reference of C30).
FourthDecodes(k) ==
    InnerLoop("sstable-dump-full", blocks[k], 0, Len(blocks[k]), {}, 0, -1).recs

\* Key, absolute sequence number and block of every such record of blocks 1..n.
FourthEntries(n) ==
    Concat([k \in 1..n |->
              [i \in 1..Len(FourthDecodes(k)) |->
                 [key |-> FourthDecodes(k)[i].key, seq |-> FourthDecodes(k)[i].seq,
                  blk |-> k - 1]]])

\* Payloads too short to hold a record: a record has at least a flags byte and
\* three varints.
ShortPayloads == {<<0>>, <<0, 1, 2>>}

AgreePayloads == CmdPayloads \cup ShortPayloads

MaxAgreeBlocks == 2   \* most blocks in a container given to the four walkers

\* The four table walkers on the same containers, with fstat succeeding and failing.
InitAgree ==
    \E c \in TableWalkers : \E bs \in SeqsUpTo(AgreePayloads, MaxAgreeBlocks) :
    \E eof \in BOOLEAN : \E e \in {CalmEnv, [CalmEnv EXCEPT !.statFails = TRUE]} :
        Start(c, bs, eof, FileBytes(bs, 0, "none", 0), NoVlogFile, e, Layout(0, "none", 0))

NextAgree ==
    \/ Begin
    \/ SstableDumpStep
    \/ SstableKeysStep
    \/ SstableStatsStep
    \/ DumpFullStep

SpecAgree == InitAgree /\ [][NextAgree]_vars

\* The records of each payload of AgreePayloads as they were laid out: key and
\* absolute sequence number.  The payload of two records holds key 'k' with
\* sequence number 5 and key 'l' with the delta 1.
PayloadEntries(payload) ==
    IF payload = WalPut THEN <<[key |-> <<107>>, seq |-> BitsOfNat(5)]>>
    ELSE IF Len(payload) < 4 THEN << >>
    ELSE <<[key |-> <<107>>, seq |-> BitsOfNat(5)], [key |-> <<108>>, seq |-> BitsOfNat(6)]>>

\* Key, absolute sequence number and block of every record of the container.
ContainerEntries ==
    Concat([k \in 1..Len(blocks) |->
              [i \in 1..Len(PayloadEntries(blocks[k])) |->
                 [key |-> PayloadEntries(blocks[k])[i].key,
                  seq |-> PayloadEntries(blocks[k])[i].seq, blk |-> k - 1]]])

\* The command has emitted or counted exactly the entries es.
AgreesWith(es) ==
    CASE cmd = "sstable-keys" ->
           [i \in 1..Len(out) |-> out[i].key] = [i \in 1..Len(es) |-> es[i].key]
      [] cmd = "sstable-stats" ->
           /\ st.total_entries = Len(es)
           /\ st.max_seq = GreatestWord({es[i].seq : i \in 1..Len(es)})
           /\ st.min_seq = IF es = << >> THEN UINT64_MAX
                           ELSE LeastWord({es[i].seq : i \in 1..Len(es)})
      [] OTHER ->
           [i \in 1..Len(out) |-> [key |-> out[i].key, seq |-> out[i].seq,
                                   blk |-> out[i].blk]] = es

\* C29: the four copies of the record decoder agree: on the same sequence of
\* block payloads and with no limit reached, sstable-dump, sstable-keys,
\* sstable-stats and sstable-dump-full decode the same records from each block,
\* with the same keys and absolute sequence numbers; the skip of payloads
\* shorter than 4 bytes never drops a record the fourth would decode.
C29_DecodersAgree ==
    (cmd \in TableWalkers /\ pc = "done" /\ Len(out) < limit)
        => AgreesWith(ContainerEntries)

\* sstable-dump-full, with fstat succeeding, on an empty payload followed by a
\* payload of one record: the scan stops at the block of size 0 and no record
\* is emitted.
C29_FullDumpStopsAtEmpty ==
    /\ cmd = "sstable-dump-full" /\ pc = "done" /\ ~env.statFails
    /\ blocks = <<<< >>, WalPut>>
    /\ st.exit = "size" /\ st.ret = 0 /\ out = << >>
(***************************************************************************)
(* C30.  sstable-dump: the block count of the closing summary.             *)
(***************************************************************************)
\* sstable-dump has printed '(N entries dumped from M blocks)'.
DumpSummarised == cmd = "sstable-dump" /\ pc = "done" /\ st.exit \in {"limit", "noblock", "end"}

\* C30: the block count in the closing summary of sstable-dump equals the number
\* of blocks read during the walk, however the walk ends (first read fails,
\* cursor exhausted, limit reached inside a block or at a block boundary), and
\* the block index printed with each record is the 0-based position of its block.
C30_SummaryCountsBlocksRead ==
    DumpSummarised =>
        /\ st.summary_blocks = st.reads
        /\ \A i \in 1..Len(out) : out[i].blk = FourthEntries(Len(blocks))[i].blk

\* The limit of 1 is reached in the first of two blocks: one block read, and
\* the summary says 2 blocks.
C30_SummaryOneTooMany ==
    /\ DumpSummarised /\ st.exit = "limit" /\ limit = 1 /\ Len(blocks) = 2
    /\ Len(out) = 1 /\ st.reads = 1 /\ st.summary_blocks = 2
====
